---------------------------- MODULE Spec2Model ----------------------------
(***************************************************************************)
(* A model of the platform configuration interpreter of catalyst           *)
(* (src-tauri/src/lib.rs): the VDF tokenizer, parser and serializer, the   *)
(* path navigation and mutation helpers, the library-folder index scan,    *)
(* the install/download state machine and the settings editor.             *)
(*                                                                         *)
(* Text is modelled as a sequence of characters, each character a TLA+     *)
(* string naming it ("a", "{", "\n", ...; "NUL" and "BOM" name U+0000 and  *)
(* U+FEFF, "U+00E9" / "U+00C9" name the non-ASCII letters e-acute and      *)
(* E-acute).  A VdfValue is a record [kind, text, entries]: kind "Text"    *)
(* carries text, kind "Object" carries entries, a sequence of              *)
(* [key, value] records.                                                   *)
(***************************************************************************)
EXTENDS Integers, Sequences, FiniteSets, TLC

VARIABLES
  \* parse / serialize pipeline (SpecVdf)
  contents,      \* the text handed to parse_vdf_document
  parsed,        \* Result<VdfValue, String> of parse_vdf_document(contents)
  serialized,    \* serialize_vdf_document(parsed value)
  reparsed,      \* Result of parse_vdf_document(serialized)
  pc,            \* position in the pipeline
  \* install/download state machine (SpecState)
  state_flags,                    \* the manifest's StateFlags (0 when absent)
  has_progress,                   \* downloaded < total, both present
  has_active_download_directory,  \* steamapps/downloading/<id> exists
  download_state,                 \* what infer_steam_download_state returned
  \* path navigation and mutation (SpecMut)
  tree,          \* the VdfValue the calls work on
  target,        \* the &mut reference held: the keys leading to it from tree
  before,        \* tree as it was when the last call was made
  call,          \* the last call: [name, base, path, key, text]
  found,         \* what the last vdf_find_object_value returned
  calls,         \* number of mutating calls made
  \* library-folders index scan (SpecLib)
  library_folders_content,  \* the text of steamapps/libraryfolders.vdf
  library_paths,            \* what parse_steam_libraryfolder_paths returned
  lib_pc,                   \* "read" before the call, "parsed" after it
  \* settings editor (SpecSettings)
  localconfig,   \* the text of the user's localconfig.vdf, or NoFile
  localconfig_writable,  \* whether fs::write to localconfig.vdf succeeds
  applied,       \* the calls made so far: [app_id, settings, read, result,
                 \* logged, returned]
  \* library directories of a root (SpecTopo)
  topo_root,     \* the Steam root handed to resolve_steamapps_directories
  topo_index,    \* <root>/steamapps/libraryfolders.vdf: its text, or why
                 \* it cannot be read
  topo_result,   \* what resolve_steamapps_directories returned
  topo_pc,       \* "ready" before the call, "resolved" after it
  \* download progress of a manifest (SpecProgress)
  manifest,      \* the text of an appmanifest_<id>.acf
  download_dir,  \* steamapps/downloading/<id> or steamapps/temp/<id> exists
  progress_snapshot, \* what parse_steam_manifest_download_progress returned
  download_progress, \* what the scan derived from the manifest
  manifest_details,  \* the install directory and the size on disk read
                     \* from the manifest: [install_directory, size_on_disk_bytes]
  prog_pc,       \* "ready" before the manifest is read, "scanned" after the
                 \* progress scan, "detailed" after the details were read
  \* collections import (SpecCollections)
  config_files,  \* the texts of the configuration files still to be read
  collections,   \* combined_collections_by_app_id
  coll_log,      \* per file read: [contents, parsed, was], was the map before
  \* root resolution and the operations that start with it (SpecRoot)
  root_override, \* AppState.steam_root_override
  home,          \* the HOME environment variable
  directories,   \* the paths that are directories on the host
  root_call,     \* the last operation: [name, steam_root, result]
  \* settings applies that run at the same time (SpecConcurrent)
  running,       \* per operation: [pc, app_id, settings, contents, value,
                 \* result, writes]
  write_log,     \* the writes made to localconfig.vdf: [by, text]
  \* downloads report over the library folders (SpecDownloads)
  owned_games_by_app_id,  \* the user's games of the provider, by app id
  dl_resolved,   \* how the root and its library folders resolved
  dl_libraries,  \* the steamapps directories, in discovery order
  dl_listed,     \* the call's end: [ok, err, downloads, seen_external_ids,
                 \* scanned], scanned the directories read to their end
  dl_pc          \* "ready", then "listed" or "failed"

vdfVars == <<contents, parsed, serialized, reparsed, pc>>
stateVars == <<state_flags, has_progress, has_active_download_directory,
               download_state>>
mutVars == <<tree, target, before, call, found, calls>>
libVars == <<library_folders_content, library_paths, lib_pc>>
setVars == <<localconfig, localconfig_writable, applied>>
topoVars == <<topo_root, topo_index, topo_result, topo_pc>>
progVars ==
  <<manifest, download_dir, progress_snapshot, download_progress,
    manifest_details, prog_pc>>
collVars == <<config_files, collections, coll_log>>
rootVars == <<root_override, home, directories, root_call>>
raceVars == <<running, write_log>>
downVars ==
  <<owned_games_by_app_id, dl_resolved, dl_libraries, dl_listed, dl_pc>>
lateVars == <<raceVars, downVars>>
scanVars == <<topoVars, progVars, collVars, rootVars, lateVars>>
vars == <<vdfVars, stateVars, mutVars, libVars, setVars, scanVars>>

-----------------------------------------------------------------------------
(* Characters *)

NUL == "NUL"
BOM == "BOM"
QUOTE == "\""
BACKSLASH == "\\"
NEWLINE == "\n"
TAB == "\t"
CR == "\r"

\* char::is_whitespace, on the characters of the model
IsWhitespace(c) == c \in {" ", NEWLINE, TAB, CR}

RECURSIVE ConcatRange(_, _, _)
\* parts[lo] \o ... \o parts[hi], the first half before the rest
ConcatRange(parts, lo, hi) ==
  IF lo > hi THEN <<>>
  ELSE IF lo = hi THEN parts[lo]
  ELSE LET mid == (lo + hi) \div 2
       IN ConcatRange(parts, lo, mid) \o ConcatRange(parts, mid + 1, hi)

Concat(parts) == ConcatRange(parts, 1, Len(parts))

-----------------------------------------------------------------------------
(* VdfToken and VdfValue *)

OpenBrace == [type |-> "OpenBrace", text |-> <<>>]
CloseBrace == [type |-> "CloseBrace", text |-> <<>>]
TextToken(t) == [type |-> "Text", text |-> t]

VdfText(t) == [kind |-> "Text", text |-> t, entries |-> <<>>]
VdfObject(es) == [kind |-> "Object", text |-> <<>>, entries |-> es]
Entry(k, v) == [key |-> k, value |-> v]
\* the absent value of an Err result or of a None option
NoValue == [kind |-> "None", text |-> <<>>, entries |-> <<>>]

\* Option<T>
None == [some |-> FALSE, value |-> 0]
Some(v) == [some |-> TRUE, value |-> v]
\* None of an Option<&str> or an Option<PathBuf>
NoPath == [some |-> FALSE, value |-> <<>>]

Ok(v) == [ok |-> TRUE, value |-> v, err |-> <<>>]
Err(e) == [ok |-> FALSE, value |-> NoValue, err |-> e]

-----------------------------------------------------------------------------
(* tokenize_vdf *)

\* contents.trim_start_matches('\u{feff}')
RECURSIVE StripBom(_)
StripBom(s) ==
  IF s # <<>> /\ Head(s) = BOM THEN StripBom(Tail(s)) ELSE s

\* the match on the escaped character inside a quoted token
UnescapeChar(c) ==
  CASE c = BACKSLASH -> <<BACKSLASH>>
    [] c = QUOTE -> <<QUOTE>>
    [] c = "n" -> <<NEWLINE>>
    [] c = "r" -> <<CR>>
    [] c = "t" -> <<TAB>>
    [] c = NUL -> <<>>
    [] OTHER -> <<c>>

\* the positions lo..hi in order
Positions(lo, hi) == [k \in 1..(hi - lo + 1) |-> lo + k - 1]

\* the first position from lo on that holds a character of set, Len(s) + 1
\* when there is none
FirstOf(s, lo, set) ==
  IF lo > Len(s) THEN Len(s) + 1
  ELSE CHOOSE k \in lo..(Len(s) + 1) :
         /\ k > Len(s) \/ s[k] \in set
         /\ \A m \in lo..(k - 1) : s[m] \notin set

\* inside a quoted token that starts at i, the character at k is taken as
\* part of an escape when an odd number of backslashes runs up to it
EscapedAt(s, i, k) ==
  LET run == CHOOSE r \in 0..(k - i) :
               /\ \A m \in (k - r)..(k - 1) : s[m] = BACKSLASH
               /\ (k - r = i \/ s[k - r - 1] # BACKSLASH)
  IN run % 2 = 1

RECURSIVE ClosingQuote(_, _, _)
\* the first quote from position from on that no escape takes
ClosingQuote(s, i, from) ==
  LET quote == FirstOf(s, from, {QUOTE})
  IN IF quote > Len(s) \/ ~EscapedAt(s, i, quote) THEN quote
     ELSE ClosingQuote(s, i, quote + 1)

\* the quoted-token loop: from position i (just after the opening quote)
\* to the closing quote or the end of input; [value, next]
ReadQuoted(s, i, value) ==
  LET close == ClosingQuote(s, i, i)
      Pushed(k) == IF EscapedAt(s, i, k) THEN UnescapeChar(s[k])
                   ELSE IF s[k] = NUL \/ s[k] = BACKSLASH THEN <<>>
                   ELSE <<s[k]>>
      kept == SelectSeq(Positions(i, close - 1), LAMBDA k : Pushed(k) # <<>>)
  IN [value |-> value \o [j \in 1..Len(kept) |-> Pushed(kept[j])[1]],
      next |-> IF i > Len(s) THEN i
               ELSE IF close > Len(s) THEN close ELSE close + 1]

\* the bare-token loop: peeks from position i; stops before whitespace or
\* a brace, drops NUL, takes every other character
ReadBare(s, i, bare_token) ==
  LET stop == FirstOf(s, i, {" ", NEWLINE, TAB, CR, "{", "}"})
      kept == SelectSeq(Positions(i, stop - 1), LAMBDA k : s[k] # NUL)
  IN [value |-> bare_token \o [j \in 1..Len(kept) |-> s[kept[j]]],
      next |-> IF i > Len(s) THEN i ELSE stop]

\* a plausible slip: the two slashes are dropped and the rest of the line
\* is read on
SkipCommentMarkOnly(s, i) == i

\* the line-comment loop: consumes through the next newline
SkipComment(s, i) ==
  LET newline == FirstOf(s, i, {NEWLINE})
  IN IF i > Len(s) THEN i
     ELSE IF newline > Len(s) THEN newline ELSE newline + 1

\* the position after the run of whitespace and NUL characters at i, each
\* of which one turn of the main loop consumes
SkipBlanks(s, i) ==
  LET IsBlank(k) == IsWhitespace(s[k]) \/ s[k] = NUL
  IN IF \A k \in i..Len(s) : IsBlank(k) THEN Len(s) + 1
     ELSE CHOOSE k \in i..Len(s) :
            ~IsBlank(k) /\ \A m \in i..(k - 1) : IsBlank(m)

\* one turn of the main loop: st is [next, tokens], the position of the
\* next character and the tokens pushed so far
TokenizeTurn(s, st) ==
  LET i == st.next
      tokens == st.tokens
  IN IF i > Len(s) THEN st
     ELSE IF s[i] = "{"
       THEN [next |-> i + 1, tokens |-> Append(tokens, OpenBrace)]
     ELSE IF s[i] = "}"
       THEN [next |-> i + 1, tokens |-> Append(tokens, CloseBrace)]
     ELSE IF s[i] = QUOTE THEN
       LET r == ReadQuoted(s, i + 1, <<>>)
       IN [next |-> r.next, tokens |-> Append(tokens, TextToken(r.value))]
     ELSE IF s[i] = "/" THEN
       IF i + 1 <= Len(s) /\ s[i + 1] = "/"
       THEN [next |-> SkipComment(s, i + 2), tokens |-> tokens]
       ELSE LET r == ReadBare(s, i + 1, <<"/">>)
            IN [next |-> r.next, tokens |-> Append(tokens, TextToken(r.value))]
     ELSE IF IsWhitespace(s[i]) \/ s[i] = NUL
       THEN [next |-> SkipBlanks(s, i), tokens |-> tokens]
     ELSE LET r == ReadBare(s, i + 1, <<s[i]>>)
          IN [next |-> r.next, tokens |-> Append(tokens, TextToken(r.value))]

RECURSIVE TokenizeTurns(_, _, _)
\* up to n turns of the main loop, the first half of them before the rest
TokenizeTurns(s, st, n) ==
  IF st.next > Len(s) THEN st
  ELSE IF n = 1 THEN TokenizeTurn(s, st)
  ELSE LET first == TokenizeTurns(s, st, n \div 2)
       IN IF first.next > Len(s) THEN first
          ELSE TokenizeTurns(s, first, n - (n \div 2))

\* the main loop from position i on; a turn consumes a character at least
TokenizeFrom(s, i, tokens) ==
  TokenizeTurns(s, [next |-> i, tokens |-> tokens], Len(s) + 1).tokens

tokenize_vdf(text) == TokenizeFrom(StripBom(text), 1, <<>>)

-----------------------------------------------------------------------------
(* parse_vdf_tokens, parse_vdf_document *)

ParseOk(es, c) == [ok |-> TRUE, entries |-> es, cursor |-> c, err |-> <<>>]
ParseErr(e, c) == [ok |-> FALSE, entries |-> <<>>, cursor |-> c, err |-> e]

ErrUnexpectedOpen == <<"Invalid VDF format: unexpected '{'">>
ErrMissingValue(key) == <<"Invalid VDF format: missing value for key", key>>
ErrTrailing == <<"Invalid VDF format: trailing tokens">>

\* a plausible slip: the entries kept as a map, a repeated key overwriting
\* the entry that holds it
PushEntryOverwriting(entries, key, value) ==
  IF \E i \in 1..Len(entries) : entries[i].key = key
  THEN [i \in 1..Len(entries) |->
          IF entries[i].key = key THEN Entry(key, value) ELSE entries[i]]
  ELSE Append(entries, Entry(key, value))

\* entries.push((key, value))
PushEntry(entries, key, value) == Append(entries, Entry(key, value))

\* One turn of the while loop of parse_vdf_tokens, in the innermost call
\* that is running. The calls in progress are kept as frames, the outermost
\* first: each holds the entries its loop collected and, for a nested call,
\* the key its caller will push the returned object under. cursor is
\* 1-based here (0-based in the source): cursor <= Len(tokens) is the
\* source's *cursor < tokens.len().
ParseTurn(tokens, st) ==
  LET depth == Len(st.frames)
      frame == st.frames[depth]
      entries == frame.entries
      cursor == st.cursor
      \* Ok(entries): the outermost call is done; a nested call hands its
      \* entries to the caller, which pushes them and goes on with its loop
      ReturnOk(c) ==
        IF depth = 1 THEN [st EXCEPT !.cursor = c, !.done = TRUE]
        ELSE LET caller == st.frames[depth - 1] IN
             [st EXCEPT
                !.cursor = c,
                !.frames = Append(SubSeq(st.frames, 1, depth - 2),
                  [caller EXCEPT !.entries =
                     PushEntry(caller.entries, frame.key,
                               VdfObject(entries))])]
      \* Err(e): the ? of every caller returns it
      ReturnErr(e, c) ==
        [st EXCEPT !.ok = FALSE, !.err = e, !.cursor = c, !.done = TRUE]
  IN IF st.done THEN st
     ELSE IF cursor > Len(tokens) THEN ReturnOk(cursor)
     ELSE
       LET token == tokens[cursor] IN
       IF token.type = "CloseBrace" THEN ReturnOk(cursor + 1)
       ELSE IF token.type = "OpenBrace"
         THEN ReturnErr(ErrUnexpectedOpen, cursor)
       ELSE
         LET key == token.text IN
         IF cursor + 1 > Len(tokens)
         THEN ReturnErr(ErrMissingValue(key), cursor + 1)
         ELSE
           LET value_token == tokens[cursor + 1] IN
           IF value_token.type = "Text" THEN
             [st EXCEPT
                !.cursor = cursor + 2,
                !.frames[depth].entries =
                   PushEntry(entries, key, VdfText(value_token.text))]
           ELSE IF value_token.type = "OpenBrace" THEN
             \* parse_vdf_tokens(tokens, cursor) is entered
             [st EXCEPT
                !.cursor = cursor + 2,
                !.frames = Append(st.frames,
                                  [key |-> key, entries |-> <<>>])]
           ELSE ReturnErr(ErrMissingValue(key), cursor + 1)

RECURSIVE ParseTurns(_, _, _)
\* up to n turns, the first half of them before the rest
ParseTurns(tokens, st, n) ==
  IF st.done THEN st
  ELSE IF n = 1 THEN ParseTurn(tokens, st)
  ELSE LET first == ParseTurns(tokens, st, n \div 2)
       IN IF first.done THEN first
          ELSE ParseTurns(tokens, first, n - (n \div 2))

\* parse_vdf_tokens from cursor on, with the entries collected so far. A
\* turn consumes a token or, at the end of the tokens, returns from a call.
parse_vdf_tokens(tokens, cursor, entries) ==
  LET st == ParseTurns(tokens,
              [frames |-> << [key |-> <<>>, entries |-> entries] >>,
               cursor |-> cursor, ok |-> TRUE, err |-> <<>>,
               done |-> FALSE],
              2 * Len(tokens) + 2)
  IN IF st.ok THEN ParseOk(st.frames[1].entries, st.cursor)
     ELSE ParseErr(st.err, st.cursor)

\* the number of tokens of a type in a token list
CountType(tokens, type) ==
  Cardinality({ i \in 1..Len(tokens) : tokens[i].type = type })

\* a plausible slip: a document whose braces do not pair up is refused
ParseDocumentTokensRequiringPairs(tokens) ==
  LET r == parse_vdf_tokens(tokens, 1, <<>>) IN
  IF ~r.ok THEN Err(r.err)
  ELSE IF r.cursor <= Len(tokens) THEN Err(ErrTrailing)
  ELSE IF CountType(tokens, "OpenBrace") # CountType(tokens, "CloseBrace")
  THEN Err(<<"Invalid VDF format: unbalanced braces">>)
  ELSE Ok(VdfObject(r.entries))

\* a plausible slip: the cursor is not compared with tokens.len()
ParseDocumentTokensIgnoringRest(tokens) ==
  LET r == parse_vdf_tokens(tokens, 1, <<>>) IN
  IF ~r.ok THEN Err(r.err) ELSE Ok(VdfObject(r.entries))

\* parse_vdf_document, from the token list on
ParseDocumentTokens(tokens) ==
  LET r == parse_vdf_tokens(tokens, 1, <<>>) IN
  IF ~r.ok THEN Err(r.err)
  ELSE IF r.cursor <= Len(tokens) THEN Err(ErrTrailing)
  ELSE Ok(VdfObject(r.entries))

parse_vdf_document(text) == ParseDocumentTokens(tokenize_vdf(text))

-----------------------------------------------------------------------------
(* escape_vdf_text, serialize_vdf_entry, serialize_vdf_document *)

\* a plausible slip: the backslash itself is not escaped
EscapeCharKeepingBackslash(c) ==
  CASE c = QUOTE -> <<BACKSLASH, QUOTE>>
    [] c = NEWLINE -> <<BACKSLASH, "n">>
    [] c = CR -> <<BACKSLASH, "r">>
    [] c = TAB -> <<BACKSLASH, "t">>
    [] OTHER -> <<c>>

EscapeChar(c) ==
  CASE c = BACKSLASH -> <<BACKSLASH, BACKSLASH>>
    [] c = QUOTE -> <<BACKSLASH, QUOTE>>
    [] c = NEWLINE -> <<BACKSLASH, "n">>
    [] c = CR -> <<BACKSLASH, "r">>
    [] c = TAB -> <<BACKSLASH, "t">>
    [] OTHER -> <<c>>

escape_vdf_text(value) ==
  Concat([k \in 1..Len(value) |-> EscapeChar(value[k])])

\* "\t".repeat(depth)
Indent(depth) == [i \in 1..depth |-> TAB]

RECURSIVE serialize_vdf_entry(_, _, _)
RECURSIVE SerializeEntries(_, _)

serialize_vdf_entry(key, value, depth) ==
  Indent(depth) \o <<QUOTE>> \o escape_vdf_text(key) \o <<QUOTE>> \o
  ( IF value.kind = "Text"
    THEN <<TAB, QUOTE>> \o escape_vdf_text(value.text) \o <<QUOTE, NEWLINE>>
    ELSE <<NEWLINE>> \o Indent(depth) \o <<"{", NEWLINE>> \o
         SerializeEntries(value.entries, depth + 1) \o
         Indent(depth) \o <<"}", NEWLINE>> )

\* the for loop over the entries of an object
SerializeEntries(entries, depth) ==
  Concat([i \in 1..Len(entries) |->
            serialize_vdf_entry(entries[i].key, entries[i].value, depth)])

serialize_vdf_document(value) ==
  IF value.kind = "Object" THEN SerializeEntries(value.entries, 0)
  ELSE <<QUOTE>> \o escape_vdf_text(value.text) \o <<QUOTE, NEWLINE>>

-----------------------------------------------------------------------------
(* SpecVdf: a text is parsed, the tree serialized, the output parsed again *)

\* the longest input, in pieces
MaxPieces == 4

\* what an input text is made of: single characters and two quoted tokens
Pieces ==
  { <<"{">>, <<"}">>, <<QUOTE>>, <<BACKSLASH>>, <<"/">>, <<"n">>,
    <<NEWLINE>>, <<" ">>, <<NUL>>, <<BOM>>,
    <<QUOTE, "a", QUOTE>>, <<QUOTE, "b", QUOTE>> }

IdleVdf ==
  /\ contents = <<>>
  /\ parsed = Err(<<>>)
  /\ serialized = <<>>
  /\ reparsed = Err(<<>>)
  /\ pc = "idle"

IdleState ==
  /\ state_flags = 0
  /\ has_progress = FALSE
  /\ has_active_download_directory = FALSE
  /\ download_state = "idle"

NoCall == [name |-> "none", base |-> <<>>, path |-> <<>>, key |-> <<>>, text |-> <<>>]

IdleMut ==
  /\ tree = NoValue
  /\ target = <<>>
  /\ before = NoValue
  /\ call = NoCall
  /\ found = NoValue
  /\ calls = 0

IdleLib ==
  /\ library_folders_content = <<>>
  /\ library_paths = <<>>
  /\ lib_pc = "idle"

IdleSettings ==
  /\ localconfig = <<>>
  /\ localconfig_writable = TRUE
  /\ applied = <<>>

IdleTopo ==
  /\ topo_root = <<>>
  /\ topo_index = [kind |-> "NotFound", text |-> <<>>]
  /\ topo_result = Ok(<<>>)
  /\ topo_pc = "idle"

IdleProgress ==
  /\ manifest = <<>>
  /\ download_dir = FALSE
  /\ progress_snapshot = <<>>
  /\ download_progress = <<>>
  /\ manifest_details = <<>>
  /\ prog_pc = "idle"

IdleCollections ==
  /\ config_files = <<>>
  /\ collections = <<>>
  /\ coll_log = <<>>

IdleRoot ==
  /\ root_override = NoPath
  /\ home = NoPath
  /\ directories = {}
  /\ root_call = <<>>

IdleRace ==
  /\ running = <<>>
  /\ write_log = <<>>

IdleDownloads ==
  /\ owned_games_by_app_id = <<>>
  /\ dl_resolved = "idle"
  /\ dl_libraries = <<>>
  /\ dl_listed = <<>>
  /\ dl_pc = "idle"

IdleLate ==
  /\ IdleRace
  /\ IdleDownloads

IdleScans ==
  /\ IdleTopo
  /\ IdleProgress
  /\ IdleCollections
  /\ IdleRoot
  /\ IdleLate

RECURSIVE Inputs(_)
Inputs(n) ==
  IF n = 0 THEN {<<>>}
  ELSE LET shorter == Inputs(n - 1)
       IN shorter \cup {s \o p : s \in shorter, p \in Pieces}

InitVdf ==
  /\ IdleSettings
  /\ IdleScans
  /\ contents \in Inputs(MaxPieces)
  /\ parsed = Err(<<>>)
  /\ serialized = <<>>
  /\ reparsed = Err(<<>>)
  /\ pc = "input"
  /\ IdleState
  /\ IdleMut
  /\ IdleLib

ParseDocument ==
  /\ pc = "input"
  /\ parsed' = parse_vdf_document(contents)
  /\ pc' = "parsed"
  /\ UNCHANGED <<contents, serialized, reparsed>>
  /\ UNCHANGED <<stateVars, mutVars, libVars, setVars, scanVars>>

SerializeDocument ==
  /\ pc = "parsed"
  /\ parsed.ok
  /\ serialized' = serialize_vdf_document(parsed.value)
  /\ pc' = "serialized"
  /\ UNCHANGED <<contents, parsed, reparsed>>
  /\ UNCHANGED <<stateVars, mutVars, libVars, setVars, scanVars>>

ReparseDocument ==
  /\ pc = "serialized"
  /\ reparsed' = parse_vdf_document(serialized)
  /\ pc' = "reparsed"
  /\ UNCHANGED <<contents, parsed, serialized>>
  /\ UNCHANGED <<stateVars, mutVars, libVars, setVars, scanVars>>

NextVdf == ParseDocument \/ SerializeDocument \/ ReparseDocument

SpecVdf == InitVdf /\ [][NextVdf]_vars

-----------------------------------------------------------------------------
(* Claims about the parser and the serializer, under SpecVdf *)

\* C1. Round trip: whenever parse_vdf_document returned a tree, parsing
\* the text serialize_vdf_document renders from it succeeds and returns a
\* structurally equal tree.
C1_RoundTrip ==
  pc = "reparsed" => reparsed.ok /\ reparsed.value = parsed.value

NeedsEscape(t) == \E i \in 1..Len(t) : t[i] \in {BACKSLASH, QUOTE, NEWLINE}

\* a tree with a key that the serializer has to escape went round
C1_Witness ==
  /\ pc = "reparsed"
  /\ reparsed.ok
  /\ serialized # contents
  /\ \E i \in 1..Len(parsed.value.entries) :
       NeedsEscape(parsed.value.entries[i].key)

RECURSIVE FlattenEntries(_)
\* the token stream an entry list stands for: key value, or key { ... }
FlattenEntries(entries) ==
  IF entries = <<>> THEN <<>>
  ELSE LET e == Head(entries) IN
       ( IF e.value.kind = "Text"
         THEN <<TextToken(e.key), TextToken(e.value.text)>>
         ELSE <<TextToken(e.key), OpenBrace>> \o
              FlattenEntries(e.value.entries) \o <<CloseBrace>> )
       \o FlattenEntries(Tail(entries))

IsPrefixOf(a, b) == Len(a) <= Len(b) /\ SubSeq(b, 1, Len(a)) = a

\* C5. Duplicate keys are retained: an accepted token stream yields one
\* entry per key occurrence, in input order, each with its own value, at
\* every level; the tree, read back as tokens, is the input stream (up to
\* close-braces at its very end).
C5_DuplicateKeysRetained ==
  (pc # "input" /\ parsed.ok) =>
    LET tokens == tokenize_vdf(contents)
        flat == FlattenEntries(parsed.value.entries)
    IN \/ /\ IsPrefixOf(tokens, flat)
          /\ \A i \in (Len(tokens) + 1)..Len(flat) : flat[i] = CloseBrace
       \/ tokens = Append(flat, CloseBrace)

\* one level holds the same key twice, each occurrence with its own value
C5_Witness ==
  /\ pc = "parsed"
  /\ parsed.ok
  /\ \E i, j \in 1..Len(parsed.value.entries) :
       /\ i < j
       /\ parsed.value.entries[i].key = parsed.value.entries[j].key
       /\ parsed.value.entries[i].value # parsed.value.entries[j].value

RECURSIVE MalformedScan(_, _, _, _)
\* A scan of a token stream that names the first structural violation:
\* depth counts the open objects, expectKey tells whether a key or a value
\* is due at position i.
MalformedScan(tokens, i, depth, expectKey) ==
  IF i > Len(tokens)
  THEN IF expectKey THEN "none" ELSE "key followed by end of input"
  ELSE
    LET type == tokens[i].type IN
    IF expectKey
    THEN CASE type = "Text" -> MalformedScan(tokens, i + 1, depth, FALSE)
           [] type = "OpenBrace" -> "open brace where a key is expected"
           [] OTHER ->
                IF depth > 0 THEN MalformedScan(tokens, i + 1, depth - 1, TRUE)
                ELSE IF i < Len(tokens) THEN "token after the top-level object closed"
                ELSE "none"
    ELSE CASE type = "Text" -> MalformedScan(tokens, i + 1, depth, TRUE)
           [] type = "OpenBrace" -> MalformedScan(tokens, i + 1, depth + 1, TRUE)
           [] OTHER -> "key followed by close brace"

\* C6. Every token stream with an open-brace where a key is expected, a
\* key followed by end-of-input or a close-brace, or a token after the
\* top-level object closed makes parse_vdf_document return an error and
\* no tree.
C6_MalformedIsError ==
  (pc # "input" /\ MalformedScan(tokenize_vdf(contents), 1, 0, TRUE) # "none")
    => ~parsed.ok /\ parsed.value = NoValue /\ parsed.err # <<>>

\* entries were already collected when the trailing token was met
C6_Witness ==
  /\ pc = "parsed"
  /\ ~parsed.ok
  /\ parsed.err = ErrTrailing
  /\ Len(tokenize_vdf(contents)) >= 4

-----------------------------------------------------------------------------
(* infer_steam_download_state *)

STEAM_APP_STATE_UPDATE_REQUIRED == 2
STEAM_APP_STATE_FULLY_INSTALLED == 4
STEAM_APP_STATE_UPDATE_RUNNING == 256
STEAM_APP_STATE_UPDATE_PAUSED == 512
STEAM_APP_STATE_UPDATE_STARTED == 1024
STEAM_APP_STATE_VALIDATING == 131072
STEAM_APP_STATE_ADDING_FILES == 262144
STEAM_APP_STATE_PREALLOCATING == 524288
STEAM_APP_STATE_DOWNLOADING == 1048576
STEAM_APP_STATE_STAGING == 2097152
STEAM_APP_STATE_COMMITTING == 4194304

\* state_flags & flag != 0, for a flag of one bit
FlagSet(flags, flag) == (flags \div flag) % 2 = 1

\* Option<&'static str>::None
NoState == "None"

\* a plausible slip: the Downloading test placed before the Paused test
infer_downloading_before_paused(flags, progress, directory) ==
  IF FlagSet(flags, STEAM_APP_STATE_DOWNLOADING) THEN "Downloading"
  ELSE IF FlagSet(flags, STEAM_APP_STATE_UPDATE_PAUSED) THEN "Paused"
  ELSE IF FlagSet(flags, STEAM_APP_STATE_PREALLOCATING) THEN "Preallocating"
  ELSE IF progress \/ directory THEN "Queued"
  ELSE NoState

infer_steam_download_state(flags, progress, directory) ==
  IF FlagSet(flags, STEAM_APP_STATE_UPDATE_PAUSED) THEN "Paused"
  ELSE IF FlagSet(flags, STEAM_APP_STATE_PREALLOCATING) THEN "Preallocating"
  ELSE IF FlagSet(flags, STEAM_APP_STATE_DOWNLOADING) THEN "Downloading"
  ELSE IF \/ FlagSet(flags, STEAM_APP_STATE_UPDATE_RUNNING)
          \/ FlagSet(flags, STEAM_APP_STATE_UPDATE_STARTED)
    THEN IF progress \/ directory THEN "Downloading" ELSE "Updating"
  ELSE IF FlagSet(flags, STEAM_APP_STATE_STAGING) THEN "Staging"
  ELSE IF \/ FlagSet(flags, STEAM_APP_STATE_COMMITTING)
          \/ FlagSet(flags, STEAM_APP_STATE_ADDING_FILES)
    THEN "Installing"
  ELSE IF FlagSet(flags, STEAM_APP_STATE_VALIDATING) THEN "Verifying"
  ELSE IF progress \/ directory THEN "Queued"
  ELSE IF /\ FlagSet(flags, STEAM_APP_STATE_UPDATE_REQUIRED)
          /\ ~FlagSet(flags, STEAM_APP_STATE_FULLY_INSTALLED)
    THEN "Queued"
  ELSE NoState

\* the bits a manifest's StateFlags is drawn from: the eleven the code
\* tests and bit 0, which it does not
StateFlagBits ==
  { 1,
    STEAM_APP_STATE_UPDATE_REQUIRED, STEAM_APP_STATE_FULLY_INSTALLED,
    STEAM_APP_STATE_UPDATE_RUNNING, STEAM_APP_STATE_UPDATE_PAUSED,
    STEAM_APP_STATE_UPDATE_STARTED, STEAM_APP_STATE_VALIDATING,
    STEAM_APP_STATE_ADDING_FILES, STEAM_APP_STATE_PREALLOCATING,
    STEAM_APP_STATE_DOWNLOADING, STEAM_APP_STATE_STAGING,
    STEAM_APP_STATE_COMMITTING }

RECURSIVE SumOf(_)
SumOf(S) == IF S = {} THEN 0 ELSE LET x == CHOOSE y \in S : TRUE
                                  IN x + SumOf(S \ {x})

InitState ==
  /\ IdleSettings
  /\ IdleScans
  /\ state_flags \in {SumOf(S) : S \in SUBSET StateFlagBits}
  /\ has_progress \in BOOLEAN
  /\ has_active_download_directory \in BOOLEAN
  /\ download_state = "pending"
  /\ IdleVdf
  /\ IdleMut
  /\ IdleLib

InferDownloadState ==
  /\ download_state = "pending"
  /\ download_state' = infer_steam_download_state(
                         state_flags, has_progress, has_active_download_directory)
  /\ UNCHANGED <<state_flags, has_progress, has_active_download_directory>>
  /\ UNCHANGED <<vdfVars, mutVars, libVars, setVars, scanVars>>

NextState == InferDownloadState

SpecState == InitState /\ [][NextState]_vars

\* the claim's own reading of a flag: bit b of f, by remainder
Bit(f, b) == (f % (2 * b)) >= b

\* the rule list of the claim, in its order: [when, label]
PriorityRules(f, hp, hd) ==
  << [when |-> Bit(f, 512), label |-> "Paused"],
     [when |-> Bit(f, 524288), label |-> "Preallocating"],
     [when |-> Bit(f, 1048576), label |-> "Downloading"],
     [when |-> (Bit(f, 256) \/ Bit(f, 1024)) /\ (hp \/ hd), label |-> "Downloading"],
     [when |-> (Bit(f, 256) \/ Bit(f, 1024)) /\ ~(hp \/ hd), label |-> "Updating"],
     [when |-> Bit(f, 2097152), label |-> "Staging"],
     [when |-> Bit(f, 4194304) \/ Bit(f, 262144), label |-> "Installing"],
     [when |-> Bit(f, 131072), label |-> "Verifying"],
     [when |-> hp \/ hd, label |-> "Queued"],
     [when |-> Bit(f, 2) /\ ~Bit(f, 4), label |-> "Queued"],
     [when |-> TRUE, label |-> "None"] >>

\* C2. infer_steam_download_state returns the label of the first rule, in
\* the fixed priority order, whose condition holds; absent when none
\* does.  In particular Paused wins over every other bit.
C2_PriorityOrder ==
  download_state # "pending" =>
    LET rules == PriorityRules(state_flags, has_progress,
                               has_active_download_directory)
        first == CHOOSE i \in 1..Len(rules) :
                   rules[i].when /\ \A j \in 1..(i - 1) : ~rules[j].when
    IN /\ download_state = rules[first].label
       /\ Bit(state_flags, 512) => download_state = "Paused"

\* Paused | Downloading was inferred
C2_Witness ==
  /\ download_state = "Paused"
  /\ Bit(state_flags, 512)
  /\ Bit(state_flags, 1048576)

-----------------------------------------------------------------------------
(* Path navigation and mutation *)

AsciiUppercase ==
  <<"A", "B", "C", "D", "E", "F", "G", "H", "I", "J", "K", "L", "M",
    "N", "O", "P", "Q", "R", "S", "T", "U", "V", "W", "X", "Y", "Z">>
AsciiLowercase ==
  <<"a", "b", "c", "d", "e", "f", "g", "h", "i", "j", "k", "l", "m",
    "n", "o", "p", "q", "r", "s", "t", "u", "v", "w", "x", "y", "z">>

\* the lower-case letter of each of 'A'..'Z'
AsciiLowerOf ==
  [c \in {AsciiUppercase[i] : i \in 1..Len(AsciiUppercase)} |->
     AsciiLowercase[CHOOSE i \in 1..Len(AsciiUppercase) : AsciiUppercase[i] = c]]

\* char::to_ascii_lowercase: only 'A'..'Z' change
to_ascii_lowercase(c) ==
  IF c \in DOMAIN AsciiLowerOf THEN AsciiLowerOf[c] ELSE c

\* a plausible slip: an exact comparison
eq_exact(a, b) == a = b

\* str::eq_ignore_ascii_case
eq_ignore_ascii_case(a, b) ==
  /\ Len(a) = Len(b)
  /\ \A i \in 1..Len(a) : to_ascii_lowercase(a[i]) = to_ascii_lowercase(b[i])

\* entries.iter().position(|(entry_key, _)| entry_key.eq_ignore_ascii_case(key)),
\* 1-based; 0 stands for None
Position(entries, key) ==
  IF \E i \in 1..Len(entries) : eq_ignore_ascii_case(entries[i].key, key)
  THEN CHOOSE i \in 1..Len(entries) :
         /\ eq_ignore_ascii_case(entries[i].key, key)
         /\ \A j \in 1..(i - 1) : ~eq_ignore_ascii_case(entries[j].key, key)
  ELSE 0

\* None is NoValue, Some(v) is v
vdf_find_object_value(value, key) ==
  IF value.kind # "Object" THEN NoValue
  ELSE LET entry_index == Position(value.entries, key)
       IN IF entry_index = 0 THEN NoValue ELSE value.entries[entry_index].value

\* a plausible slip: a leaf found under the key is left alone and a second
\* entry is pushed for the object
get_or_insert_keeping_leaf(value, key) ==
  LET entries == IF value.kind = "Text" THEN <<>> ELSE value.entries
      entry_index == Position(entries, key)
  IN IF entry_index # 0 /\ entries[entry_index].value.kind = "Object"
     THEN VdfObject(entries)
     ELSE VdfObject(Append(entries, Entry(key, VdfObject(<<>>))))

\* a plausible slip: the entry found is made an empty object whatever it
\* held
get_or_insert_resetting_object(value, key) ==
  LET entries == IF value.kind = "Text" THEN <<>> ELSE value.entries
      entry_index == Position(entries, key)
  IN IF entry_index # 0
     THEN VdfObject([entries EXCEPT ![entry_index].value = VdfObject(<<>>)])
     ELSE VdfObject(Append(entries, Entry(key, VdfObject(<<>>))))

\* vdf_get_or_insert_object_mut, as the value it leaves behind; the
\* reference it returns is to the value of the first entry matching key
vdf_get_or_insert_object_mut(value, key) ==
  LET entries == IF value.kind = "Text" THEN <<>> ELSE value.entries
      entry_index == Position(entries, key)
  IN IF entry_index # 0
     THEN IF entries[entry_index].value.kind # "Object"
          THEN VdfObject([entries EXCEPT ![entry_index].value = VdfObject(<<>>)])
          ELSE VdfObject(entries)
     ELSE VdfObject(Append(entries, Entry(key, VdfObject(<<>>))))

RECURSIVE vdf_ensure_object_path_mut(_, _)
\* as the value it leaves behind; the reference it returns is to the
\* object reached from value by the first match of each key of path
vdf_ensure_object_path_mut(value, path) ==
  IF path = <<>> THEN value
  ELSE LET with_child == vdf_get_or_insert_object_mut(value, path[1])
           at == Position(with_child.entries, path[1])
       IN VdfObject([with_child.entries EXCEPT
            ![at].value = vdf_ensure_object_path_mut(@, Tail(path))])

\* a plausible slip: every entry matching the key gets the text
set_text_entry_replacing_every_match(value, key, text) ==
  LET entries == IF value.kind = "Text" THEN <<>> ELSE value.entries
  IN IF Position(entries, key) # 0
     THEN VdfObject([ i \in 1..Len(entries) |->
            IF eq_ignore_ascii_case(entries[i].key, key)
            THEN Entry(entries[i].key, VdfText(text)) ELSE entries[i] ])
     ELSE VdfObject(Append(entries, Entry(key, VdfText(text))))

\* a plausible slip: the matching entry is dropped and the new one pushed
set_text_entry_moving_to_end(value, key, text) ==
  LET entries == IF value.kind = "Text" THEN <<>> ELSE value.entries
      entry_index == Position(entries, key)
  IN IF entry_index # 0
     THEN VdfObject(Append(
            SubSeq(entries, 1, entry_index - 1) \o
            SubSeq(entries, entry_index + 1, Len(entries)),
            Entry(entries[entry_index].key, VdfText(text))))
     ELSE VdfObject(Append(entries, Entry(key, VdfText(text))))

vdf_set_text_entry(value, key, text) ==
  LET entries == IF value.kind = "Text" THEN <<>> ELSE value.entries
      entry_index == Position(entries, key)
  IN IF entry_index # 0
     THEN VdfObject([entries EXCEPT ![entry_index].value = VdfText(text)])
     ELSE VdfObject(Append(entries, Entry(key, VdfText(text))))

\* a plausible slip: only the first matching entry is removed
remove_first_entry_only(value, key) ==
  IF value.kind # "Object" THEN value
  ELSE LET entry_index == Position(value.entries, key)
       IN IF entry_index = 0 THEN value
          ELSE VdfObject(SubSeq(value.entries, 1, entry_index - 1) \o
                         SubSeq(value.entries, entry_index + 1,
                                Len(value.entries)))

vdf_remove_entry(value, key) ==
  IF value.kind # "Object" THEN value
  ELSE VdfObject(SelectSeq(value.entries,
                   LAMBDA e : ~eq_ignore_ascii_case(e.key, key)))

RECURSIVE Deref(_, _)
\* the value a &mut reference obtained by vdf_ensure_object_path_mut(value,
\* path) points to
Deref(value, path) ==
  IF path = <<>> THEN value
  ELSE Deref(vdf_find_object_value(value, path[1]), Tail(path))

RECURSIVE WriteThrough(_, _, _)
\* value after the object such a reference points to became new
WriteThrough(value, path, new) ==
  IF path = <<>> THEN new
  ELSE VdfObject([value.entries EXCEPT
         ![Position(value.entries, path[1])].value =
             WriteThrough(@, Tail(path), new)])

-----------------------------------------------------------------------------
(* SpecMut: find, ensurePath, setLeaf and removeEntry calls on one tree *)

\* the most mutating calls made on one tree
MaxCalls == 2

E_ACUTE_LOWER == <<"U+00E9">>
E_ACUTE_UPPER == <<"U+00C9">>

\* keys the mutating calls are made with
MutKeys == { <<"a">>, <<"A">>, <<"b">> }
\* keys looked up
LookupKeys == MutKeys \cup { E_ACUTE_LOWER, E_ACUTE_UPPER }
\* paths vdf_ensure_object_path_mut is called with
MutPaths == { <<k>> : k \in MutKeys } \cup { <<"a">>, <<"b">> } \X { <<"b">>, <<"A">> }
MutTexts == { <<"x">> }

Leaf1 == VdfText(<<"1">>)
Leaf2 == VdfText(<<"2">>)

\* the trees the calls start from
InitialTrees ==
  { VdfObject(<<>>),
    VdfText(<<"x">>),
    VdfObject(<<Entry(<<"a">>, Leaf1), Entry(<<"A">>, Leaf2),
                Entry(<<"b">>, VdfObject(<<>>))>>),
    VdfObject(<<Entry(<<"A">>, VdfObject(<<Entry(<<"b">>, Leaf1)>>)),
                Entry(<<"a">>, Leaf2)>>),
    VdfObject(<<Entry(<<"b">>, Leaf1),
                Entry(<<"a">>, VdfObject(<<Entry(<<"a">>, Leaf1),
                                          Entry(<<"B">>, VdfObject(<<>>)),
                                          Entry(<<"a">>, Leaf2)>>)),
                Entry(<<"b">>, Leaf2)>>),
    VdfObject(<<Entry(E_ACUTE_LOWER, Leaf1), Entry(E_ACUTE_UPPER, Leaf2),
                Entry(<<"a">>, VdfObject(<<>>))>>) }

InitMut ==
  /\ IdleSettings
  /\ IdleScans
  /\ tree \in InitialTrees
  /\ target = <<>>
  /\ before = tree
  /\ call = NoCall
  /\ found = NoValue
  /\ calls = 0
  /\ IdleVdf
  /\ IdleState
  /\ IdleLib

\* vdf_find_object_value(reference, key)
Find(k) ==
  /\ found' = vdf_find_object_value(Deref(tree, target), k)
  /\ call' = [NoCall EXCEPT !.name = "find", !.base = target, !.key = k]
  /\ before' = tree
  /\ UNCHANGED <<tree, target, calls>>
  /\ UNCHANGED <<vdfVars, stateVars, libVars, setVars, scanVars>>

\* reference = vdf_ensure_object_path_mut(base, path), base being the tree
\* itself or the reference held
EnsurePath(base, p) ==
  /\ calls < MaxCalls
  /\ tree' = WriteThrough(tree, base,
                          vdf_ensure_object_path_mut(Deref(tree, base), p))
  /\ target' = base \o p
  /\ call' = [NoCall EXCEPT !.name = "ensure", !.base = base, !.path = p]
  /\ before' = tree
  /\ calls' = calls + 1
  /\ UNCHANGED found
  /\ UNCHANGED <<vdfVars, stateVars, libVars, setVars, scanVars>>

\* vdf_set_text_entry(reference, key, text)
SetLeaf(k, t) ==
  /\ calls < MaxCalls
  /\ tree' = WriteThrough(tree, target,
                          vdf_set_text_entry(Deref(tree, target), k, t))
  /\ call' = [NoCall EXCEPT !.name = "set", !.base = target, !.key = k, !.text = t]
  /\ before' = tree
  /\ calls' = calls + 1
  /\ UNCHANGED <<target, found>>
  /\ UNCHANGED <<vdfVars, stateVars, libVars, setVars, scanVars>>

\* vdf_remove_entry(reference, key)
RemoveEntry(k) ==
  /\ calls < MaxCalls
  /\ tree' = WriteThrough(tree, target,
                          vdf_remove_entry(Deref(tree, target), k))
  /\ call' = [NoCall EXCEPT !.name = "remove", !.base = target, !.key = k]
  /\ before' = tree
  /\ calls' = calls + 1
  /\ UNCHANGED <<target, found>>
  /\ UNCHANGED <<vdfVars, stateVars, libVars, setVars, scanVars>>

NextMut ==
  \/ \E k \in LookupKeys : Find(k)
  \/ \E p \in MutPaths : EnsurePath(<<>>, p)
  \/ \E k \in MutKeys : EnsurePath(target, <<k>>)
  \/ \E k \in MutKeys, t \in MutTexts : SetLeaf(k, t)
  \/ \E k \in MutKeys : RemoveEntry(k)

SpecMut == InitMut /\ [][NextMut]_vars

-----------------------------------------------------------------------------
(* Claims about navigation and mutation, under SpecMut *)

\* upper/lower pairs of the ASCII letters
AsciiLetterPairs ==
  { <<AsciiUppercase[i], AsciiLowercase[i]>> : i \in 1..Len(AsciiUppercase) }
\* upper/lower pairs of all the letters of the model
LetterPairs == AsciiLetterPairs \cup { <<E_ACUTE_UPPER[1], E_ACUTE_LOWER[1]>> }

\* k1 and k2 are the same text up to the case of letters, pairs listing
\* the letters that count
DifferOnlyInCase(k1, k2, pairs) ==
  /\ Len(k1) = Len(k2)
  /\ \A i \in 1..Len(k1) :
       \/ k1[i] = k2[i]
       \/ <<k1[i], k2[i]>> \in pairs
       \/ <<k2[i], k1[i]>> \in pairs

\* the value of the first entry, in order, whose key matches k up to
\* case; absent when there is none or v is a leaf
FirstMatch(v, k, pairs) ==
  LET hits == IF v.kind = "Object"
              THEN { i \in 1..Len(v.entries) :
                       DifferOnlyInCase(v.entries[i].key, k, pairs) }
              ELSE {}
  IN IF hits = {} THEN NoValue
     ELSE v.entries[CHOOSE i \in hits : \A j \in hits : i <= j].value

FindAgrees(pairs) ==
  call.name = "find" =>
    /\ found = FirstMatch(Deref(tree, target), call.key, pairs)
    /\ \A k2 \in LookupKeys :
         DifferOnlyInCase(call.key, k2, pairs) =>
           vdf_find_object_value(Deref(tree, target), k2) = found

\* C7 as stated. Key lookup is case-insensitive and first-match: two keys
\* that differ only in letter case get the same result, the value of the
\* first entry whose key matches ignoring case.
C7_FindIgnoresLetterCase == FindAgrees(LetterPairs)

\* C7 as amended. The same for two keys that differ only in the case of
\* ASCII letters, matching ignoring ASCII case.
C7_FindIgnoresAsciiCase == FindAgrees(AsciiLetterPairs)

\* "A" was looked up where "a" comes first and got the entry of "a"
C7_Witness ==
  /\ call.name = "find"
  /\ call.key = <<"A">>
  /\ Deref(tree, target).kind = "Object"
  /\ Len(Deref(tree, target).entries) >= 2
  /\ Deref(tree, target).entries[1].key = <<"a">>
  /\ Deref(tree, target).entries[2].key = <<"A">>
  /\ found = Deref(tree, target).entries[1].value
  /\ found # Deref(tree, target).entries[2].value

RECURSIVE PathObjects(_)
\* the objects that creating path in an empty object leaves behind
PathObjects(p) ==
  IF p = <<>> THEN VdfObject(<<>>)
  ELSE VdfObject(<<Entry(Head(p), PathObjects(Tail(p)))>>)

\* C8. Ensure-path narrowing: after vdf_ensure_object_path_mut(root,
\* [k1..kn]) the first case-insensitive match of k1, then k2, ... kn from
\* root is an object at every step; an entry that was the first match of
\* a path key and held a leaf is still there, under its key, and holds an
\* object that was emptied (nothing in it but the rest of the path).
C8_EnsurePathNarrows ==
  call.name = "ensure" =>
    LET root_before == Deref(before, call.base)
        root_after == Deref(tree, call.base)
    IN \A n \in 0..Len(call.path) :
         LET prefix == SubSeq(call.path, 1, n)
             was == Deref(root_before, prefix)
             now == Deref(root_after, prefix)
         IN /\ now.kind = "Object"
            /\ (n < Len(call.path) /\ was.kind = "Object") =>
                 LET at == Position(was.entries, call.path[n + 1]) IN
                 (at # 0 /\ was.entries[at].value.kind = "Text") =>
                   /\ Len(now.entries) = Len(was.entries)
                   /\ now.entries[at].key = was.entries[at].key
                   /\ now.entries[at].value =
                        PathObjects(SubSeq(call.path, n + 2, Len(call.path)))

\* a two-key path whose first key held a leaf was ensured
C8_Witness ==
  /\ call.name = "ensure"
  /\ Len(call.path) = 2
  /\ Deref(before, call.base).kind = "Object"
  /\ Len(Deref(before, call.base).entries) >= 2
  /\ Deref(Deref(before, call.base), <<call.path[1]>>).kind = "Text"
  /\ Deref(Deref(tree, call.base), call.path).kind = "Object"

RECURSIVE Extends(_, _)
\* wherever b and a both hold an object at the same place, the entries of
\* a begin with the entries of b, key by key, and any further entry of a
\* comes after them
Extends(b, a) ==
  \/ a = b
  \/ b.kind # "Object"
  \/ a.kind # "Object"
  \/ /\ Len(a.entries) >= Len(b.entries)
     /\ \A i \in 1..Len(b.entries) :
          /\ a.entries[i].key = b.entries[i].key
          /\ Extends(b.entries[i].value, a.entries[i].value)

RECURSIVE Pick(_, _, _)
\* the entries of es, from index i on, whose index is in keep, in order
Pick(es, keep, i) ==
  IF i > Len(es) THEN <<>>
  ELSE (IF i \in keep THEN <<es[i]>> ELSE <<>>) \o Pick(es, keep, i + 1)

RECURSIVE OnlyRemovedAt(_, _, _)
\* a is b with some entries of the object reached by path p taken out,
\* the others standing as they were and in their order
OnlyRemovedAt(b, a, p) ==
  IF b.kind # "Object" THEN a = b
  ELSE IF p = <<>>
  THEN /\ a.kind = "Object"
       /\ \E keep \in SUBSET (1..Len(b.entries)) :
            a.entries = Pick(b.entries, keep, 1)
  ELSE /\ a.kind = "Object"
       /\ Len(a.entries) = Len(b.entries)
       /\ \A i \in 1..Len(b.entries) :
            /\ a.entries[i].key = b.entries[i].key
            /\ IF i = Position(b.entries, p[1])
               THEN OnlyRemovedAt(b.entries[i].value, a.entries[i].value, Tail(p))
               ELSE a.entries[i].value = b.entries[i].value

\* C9. No mutation reorders siblings: an ensurePath or setLeaf call keeps
\* every entry at its place and puts each entry it creates after all the
\* entries its parent had; a removeEntry call leaves the entries it does
\* not remove in their order; so it is after any sequence of such calls.
C9_NoReordering ==
  /\ call.name \in {"ensure", "set"} => Extends(before, tree)
  /\ call.name = "remove" => OnlyRemovedAt(before, tree, call.base)
  /\ call.name = "find" => tree = before

\* an entry between two others was removed and the two are still in order
C9_Witness ==
  /\ call.name = "remove"
  /\ LET was == Deref(before, call.base).entries
         now == Deref(tree, call.base).entries
     IN /\ Len(was) = 3
        /\ Len(now) = 2
        /\ now[1] = was[1]
        /\ now[2] = was[3]
        /\ now[1] # now[2]

-----------------------------------------------------------------------------
(* parse_steam_libraryfolder_paths *)

Digits == {"0", "1", "2", "3", "4", "5", "6", "7", "8", "9"}

RECURSIVE LinesFrom(_, _)
\* the lines of the text from the position from on
LinesFrom(text, from) ==
  IF from > Len(text) THEN <<>>
  ELSE LET feed == FirstOf(text, from, {NEWLINE})
       IN IF feed > Len(text) THEN <<SubSeq(text, from, Len(text))>>
          ELSE <<SubSeq(text, from,
                        IF feed > from /\ text[feed - 1] = CR
                        THEN feed - 2 ELSE feed - 1)>>
               \o LinesFrom(text, feed + 1)

\* str::lines: the text between line feeds, a final carriage return of a
\* line dropped, no last line for a text that ends in a line feed
Lines(text) == LinesFrom(text, 1)

\* \s* of a pattern: the first position from i on that holds no whitespace
RECURSIVE SkipWhitespace(_, _)
SkipWhitespace(line, i) ==
  IF i <= Len(line) /\ IsWhitespace(line[i])
  THEN SkipWhitespace(line, i + 1) ELSE i

\* the first position from i on that holds no character of set
RECURSIVE SkipWhile(_, _, _)
SkipWhile(line, i, set) ==
  IF i <= Len(line) /\ line[i] \in set
  THEN SkipWhile(line, i + 1, set) ELSE i

\* the first position from i on that holds a quote, or Len(line) + 1
RECURSIVE NextQuote(_, _)
NextQuote(line, i) ==
  IF i <= Len(line) /\ line[i] # QUOTE THEN NextQuote(line, i + 1) ELSE i

NoMatch == [matched |-> FALSE, capture |-> <<>>]

\* the end of both patterns, \s*"([^"]+)", tried at position i
MatchQuotedValue(line, i) ==
  LET open == SkipWhitespace(line, i)
      close == NextQuote(line, open + 1)
  IN IF /\ open <= Len(line)
        /\ line[open] = QUOTE
        /\ close <= Len(line)
        /\ close > open + 1
     THEN [matched |-> TRUE, capture |-> SubSeq(line, open + 1, close - 1)]
     ELSE NoMatch

\* path_pattern.captures(line): ^\s*"path"\s*"([^"]+)"
path_pattern(line) ==
  LET start == SkipWhitespace(line, 1)
  IN IF /\ start + 5 <= Len(line)
        /\ SubSeq(line, start, start + 5) = <<QUOTE, "p", "a", "t", "h", QUOTE>>
     THEN MatchQuotedValue(line, start + 6)
     ELSE NoMatch

\* legacy_pattern.captures(line): ^\s*"[0-9]+"\s*"([^"]+)"
legacy_pattern(line) ==
  LET start == SkipWhitespace(line, 1)
      after == SkipWhile(line, start + 1, Digits)
  IN IF /\ start <= Len(line)
        /\ line[start] = QUOTE
        /\ after > start + 1
        /\ after <= Len(line)
        /\ line[after] = QUOTE
     THEN MatchQuotedValue(line, after + 1)
     ELSE NoMatch

RECURSIVE decode_steam_vdf_value(_)
decode_steam_vdf_value(v) ==
  IF v = <<>> THEN <<>>
  ELSE IF Head(v) # BACKSLASH THEN <<Head(v)>> \o decode_steam_vdf_value(Tail(v))
  ELSE IF Len(v) = 1 THEN <<>>
  ELSE ( CASE v[2] = BACKSLASH -> <<BACKSLASH>>
           [] v[2] = QUOTE -> <<QUOTE>>
           [] v[2] = "t" -> <<TAB>>
           [] v[2] = "n" -> <<NEWLINE>>
           [] v[2] = "r" -> <<CR>>
           [] OTHER -> <<v[2]>> )
       \o decode_steam_vdf_value(SubSeq(v, 3, Len(v)))

\* str::trim
RECURSIVE TrimStart(_)
TrimStart(t) ==
  IF t # <<>> /\ IsWhitespace(Head(t)) THEN TrimStart(Tail(t)) ELSE t
RECURSIVE TrimEnd(_)
TrimEnd(t) ==
  IF t # <<>> /\ IsWhitespace(t[Len(t)])
  THEN TrimEnd(SubSeq(t, 1, Len(t) - 1)) ELSE t
Trim(t) == TrimEnd(TrimStart(t))

\* Path::components on a Unix path: the names between separators, empty
\* names and "." (but a leading one) dropped, and whether the path starts
\* at the root.  PathBuf's Eq and Hash go by the components.
RECURSIVE SplitNames(_, _, _)
SplitNames(p, i, name) ==
  IF i > Len(p) THEN (IF name = <<>> THEN <<>> ELSE <<name>>)
  ELSE IF p[i] = "/"
    THEN (IF name = <<>> THEN <<>> ELSE <<name>>) \o SplitNames(p, i + 1, <<>>)
  ELSE SplitNames(p, i + 1, Append(name, p[i]))

Components(p) ==
  LET names == SplitNames(p, 1, <<>>)
      rooted == p # <<>> /\ p[1] = "/"
  IN [ rooted |-> rooted,
       names |-> SelectSeq(names, LAMBDA n : n # <<".">>)
       , leading_dot |-> ~rooted /\ names # <<>> /\ names[1] = <<".">> ]

\* seen_paths.insert(path.clone()) && paths.push(path): PathBuf equality
InsertPath(paths, p) ==
  IF \E i \in 1..Len(paths) : Components(paths[i]) = Components(p)
  THEN paths ELSE Append(paths, p)

RECURSIVE ModernScan(_, _)
\* the first for loop: lines matching path_pattern
ModernScan(lines, paths) ==
  IF lines = <<>> THEN paths
  ELSE LET captures == path_pattern(Head(lines))
           trimmed_path == Trim(decode_steam_vdf_value(captures.capture))
       IN IF ~captures.matched \/ trimmed_path = <<>>
          THEN ModernScan(Tail(lines), paths)
          ELSE ModernScan(Tail(lines), InsertPath(paths, trimmed_path))

RECURSIVE LegacyScanUntrimmed(_, _)
\* a plausible slip: the legacy loop without the trim
LegacyScanUntrimmed(lines, paths) ==
  IF lines = <<>> THEN paths
  ELSE LET captures == legacy_pattern(Head(lines))
           decoded_path == decode_steam_vdf_value(captures.capture)
       IN IF ~captures.matched \/ decoded_path = <<>>
          THEN LegacyScanUntrimmed(Tail(lines), paths)
          ELSE LegacyScanUntrimmed(Tail(lines), InsertPath(paths, decoded_path))

RECURSIVE LegacyScanLoop(_, _)
LegacyScanLoop(lines, paths) ==
  IF lines = <<>> THEN paths
  ELSE LET captures == legacy_pattern(Head(lines))
           trimmed_path == Trim(decode_steam_vdf_value(captures.capture))
       IN IF ~captures.matched \/ trimmed_path = <<>>
          THEN LegacyScanLoop(Tail(lines), paths)
          ELSE LegacyScanLoop(Tail(lines), InsertPath(paths, trimmed_path))

\* the second for loop: lines matching legacy_pattern
LegacyScan(lines, paths) == LegacyScanLoop(lines, paths)

\* the Ok value; the two Regex::new calls compile constant patterns
parse_steam_libraryfolder_paths(text) ==
  LET paths == ModernScan(Lines(text), <<>>)
  IN IF paths # <<>> THEN paths ELSE LegacyScan(Lines(text), paths)

-----------------------------------------------------------------------------
(* SpecLib: an index file is read and scanned for library paths *)

\* the most lines of an index file
MaxLines == 2

PathKey == <<QUOTE, "p", "a", "t", "h", QUOTE>>
\* the keys of a line: "path", bare numbers, another key
LineKeys == { PathKey, <<QUOTE, "0", QUOTE>>, <<QUOTE, "1", "2", QUOTE>>,
              <<QUOTE, "l", "a", "b", "e", "l", QUOTE>> }
\* the quoted values of a line, as written in the file
LineValues == { <<"/", "x">>, <<"/", "y">>, <<"/", "x", "/">>, <<" ", "/", "x">>,
                <<BACKSLASH, BACKSLASH, "x">>, <<" ">> }

\* a line as the platform writes it (indented, tab separated) and as
\* tight as the patterns accept it
IndexLines ==
  { <<TAB>> \o k \o <<TAB, TAB, QUOTE>> \o v \o <<QUOTE, NEWLINE>> :
      k \in LineKeys, v \in LineValues }
  \cup
  { k \o <<QUOTE>> \o v \o <<QUOTE, CR, NEWLINE>> : k \in LineKeys, v \in LineValues }

RECURSIVE IndexFiles(_)
IndexFiles(n) ==
  IF n = 0 THEN {<<>>}
  ELSE LET shorter == IndexFiles(n - 1)
       IN shorter \cup {f \o l : f \in shorter, l \in IndexLines}

InitLib ==
  /\ IdleSettings
  /\ IdleScans
  /\ library_folders_content \in IndexFiles(MaxLines)
  /\ library_paths = <<>>
  /\ lib_pc = "read"
  /\ IdleVdf
  /\ IdleState
  /\ IdleMut

ParseLibraryFolderPaths ==
  /\ lib_pc = "read"
  /\ library_paths' = parse_steam_libraryfolder_paths(library_folders_content)
  /\ lib_pc' = "parsed"
  /\ UNCHANGED library_folders_content
  /\ UNCHANGED <<vdfVars, stateVars, mutVars, setVars, scanVars>>

NextLib == ParseLibraryFolderPaths

SpecLib == InitLib /\ [][NextLib]_vars

\* whether a line gives its value under the key "path" / under a bare
\* number, read off the line character by character
IsKeyLine(line, keyChars) ==
  LET start == CHOOSE i \in 1..(Len(line) + 1) :
                 /\ \A j \in 1..(i - 1) : line[j] \in {" ", TAB}
                 /\ i <= Len(line) => line[i] \notin {" ", TAB}
      closing == { i \in (start + 2)..Len(line) :
                     /\ line[i] = QUOTE
                     /\ \A j \in (start + 1)..(i - 1) : line[j] \in keyChars }
  IN /\ start <= Len(line)
     /\ line[start] = QUOTE
     /\ closing # {}

IsNumericKeyLine(line) == IsKeyLine(line, Digits)
IsPathKeyLine(line) ==
  \E i \in 1..Len(line) :
    i + 5 <= Len(line) /\ SubSeq(line, i, i + 5) = PathKey

\* the line with its bare-number key replaced by the key "path"
ModernLine(line) ==
  IF ~IsNumericKeyLine(line) THEN line
  ELSE LET open == CHOOSE i \in 1..Len(line) :
                     line[i] = QUOTE /\ \A j \in 1..(i - 1) : line[j] # QUOTE
           close == CHOOSE i \in (open + 1)..Len(line) :
                      line[i] = QUOTE /\ \A j \in (open + 1)..(i - 1) : line[j] # QUOTE
       IN SubSeq(line, 1, open - 1) \o PathKey \o SubSeq(line, close + 1, Len(line))

RECURSIVE ModernFile(_)
\* the equivalent modern file of a list of lines, as text
ModernFile(lines) ==
  IF lines = <<>> THEN <<>>
  ELSE ModernLine(Head(lines)) \o <<NEWLINE>> \o ModernFile(Tail(lines))

SamePaths(a, b) ==
  /\ Len(a) = Len(b)
  /\ \A i \in 1..Len(a) : Components(a[i]) = Components(b[i])

\* C10. Legacy fallback: an index file with bare-numeric-key lines and no
\* "path" key line yields the same paths, in the same order, as the file
\* in which every such line gives its path under the key "path"; and the
\* legacy scan contributes nothing once the modern scan found a path.
C10_LegacyFallback ==
  lib_pc = "parsed" =>
    LET lines == Lines(library_folders_content) IN
    /\ ( /\ \E i \in 1..Len(lines) : IsNumericKeyLine(lines[i])
         /\ \A i \in 1..Len(lines) : ~IsPathKeyLine(lines[i]) )
       => SamePaths(library_paths,
                    parse_steam_libraryfolder_paths(ModernFile(lines)))
    /\ ModernScan(lines, <<>>) # <<>> =>
         \A i \in 1..Len(library_paths) :
           \E j \in 1..Len(lines) :
             /\ IsPathKeyLine(lines[j])
             /\ path_pattern(lines[j]).matched
             /\ Trim(decode_steam_vdf_value(path_pattern(lines[j]).capture))
                  = library_paths[i]

\* a legacy file with two numbered lines gave two paths, one of them
\* trimmed or decoded
C10_Witness ==
  /\ lib_pc = "parsed"
  /\ LET lines == Lines(library_folders_content) IN
     /\ Len(lines) = 2
     /\ \A i \in 1..Len(lines) : IsNumericKeyLine(lines[i])
     /\ Len(library_paths) = 2
     /\ \E i \in 1..2 : legacy_pattern(lines[i]).capture # library_paths[i]

-----------------------------------------------------------------------------
(* The settings editor: normalize_game_properties_settings_payload and
   apply_steam_game_properties_settings *)


KEY_UserLocalConfigStore ==
  <<"U", "s", "e", "r", "L", "o", "c", "a", "l", "C", "o", "n", "f",
     "i", "g", "S", "t", "o", "r", "e">>

KEY_Software ==
  <<"S", "o", "f", "t", "w", "a", "r", "e">>

KEY_Valve ==
  <<"V", "a", "l", "v", "e">>

KEY_Steam ==
  <<"S", "t", "e", "a", "m">>

KEY_apps ==
  <<"a", "p", "p", "s">>

KEY_CompatToolMapping ==
  <<"C", "o", "m", "p", "a", "t", "T", "o", "o", "l", "M", "a", "p",
     "p", "i", "n", "g">>

KEY_LaunchOptions ==
  <<"L", "a", "u", "n", "c", "h", "O", "p", "t", "i", "o", "n", "s">>

KEY_AutoUpdateBehavior ==
  <<"A", "u", "t", "o", "U", "p", "d", "a", "t", "e", "B", "e", "h",
     "a", "v", "i", "o", "r">>

KEY_AllowDownloadsWhileRunning ==
  <<"A", "l", "l", "o", "w", "D", "o", "w", "n", "l", "o", "a", "d",
     "s", "W", "h", "i", "l", "e", "R", "u", "n", "n", "i", "n", "g">>

KEY_SteamInput ==
  <<"S", "t", "e", "a", "m", "I", "n", "p", "u", "t">>

KEY_name ==
  <<"n", "a", "m", "e">>

KEY_config ==
  <<"c", "o", "n", "f", "i", "g">>

KEY_priority ==
  <<"p", "r", "i", "o", "r", "i", "t", "y">>

MODE_use_global_setting ==
  <<"u", "s", "e", "-", "g", "l", "o", "b", "a", "l", "-", "s", "e",
     "t", "t", "i", "n", "g">>

MODE_wait_until_launch ==
  <<"w", "a", "i", "t", "-", "u", "n", "t", "i", "l", "-", "l", "a",
     "u", "n", "c", "h">>

MODE_let_steam_decide ==
  <<"l", "e", "t", "-", "s", "t", "e", "a", "m", "-", "d", "e", "c",
     "i", "d", "e">>

MODE_immediately_download ==
  <<"i", "m", "m", "e", "d", "i", "a", "t", "e", "l", "y", "-", "d",
     "o", "w", "n", "l", "o", "a", "d">>

MODE_pause_while_playing_global ==
  <<"p", "a", "u", "s", "e", "-", "w", "h", "i", "l", "e", "-", "p",
     "l", "a", "y", "i", "n", "g", "-", "g", "l", "o", "b", "a", "l">>

MODE_always_allow ==
  <<"a", "l", "w", "a", "y", "s", "-", "a", "l", "l", "o", "w">>

MODE_never_allow ==
  <<"n", "e", "v", "e", "r", "-", "a", "l", "l", "o", "w">>

MODE_use_default_settings ==
  <<"u", "s", "e", "-", "d", "e", "f", "a", "u", "l", "t", "-", "s",
     "e", "t", "t", "i", "n", "g", "s">>

MODE_disable_steam_input ==
  <<"d", "i", "s", "a", "b", "l", "e", "-", "s", "t", "e", "a", "m",
     "-", "i", "n", "p", "u", "t">>

MODE_enable_steam_input ==
  <<"e", "n", "a", "b", "l", "e", "-", "s", "t", "e", "a", "m", "-",
     "i", "n", "p", "u", "t">>

DEFAULT_COMPATIBILITY_TOOL ==
  <<"P", "r", "o", "t", "o", "n", " ", "E", "x", "p", "e", "r", "i",
     "m", "e", "n", "t", "a", "l">>

\* (tool_id, display_label)
STEAM_BUILTIN_COMPATIBILITY_TOOLS ==
  << [tool_id |-> <<"p", "r", "o", "t", "o", "n", "_", "e", "x", "p", "e", "r", "i",
           "m", "e", "n", "t", "a", "l">>,
      display_label |-> <<"P", "r", "o", "t", "o", "n", " ", "E", "x", "p", "e", "r", "i",
           "m", "e", "n", "t", "a", "l">>],
     [tool_id |-> <<"p", "r", "o", "t", "o", "n", "_", "h", "o", "t", "f", "i", "x">>,
      display_label |-> <<"P", "r", "o", "t", "o", "n", " ", "H", "o", "t", "f", "i", "x">>],
     [tool_id |-> <<"p", "r", "o", "t", "o", "n", "_", "9">>,
      display_label |-> <<"P", "r", "o", "t", "o", "n", " ", "9", ".", "0", "-", "4">>],
     [tool_id |-> <<"p", "r", "o", "t", "o", "n", "_", "8">>,
      display_label |-> <<"P", "r", "o", "t", "o", "n", " ", "8", ".", "0", "-", "5">>],
     [tool_id |-> <<"p", "r", "o", "t", "o", "n", "_", "7">>,
      display_label |-> <<"P", "r", "o", "t", "o", "n", " ", "7", ".", "0", "-", "6">>],
     [tool_id |-> <<"s", "n", "i", "p", "e", "r">>,
      display_label |-> <<"S", "t", "e", "a", "m", " ", "L", "i", "n", "u", "x", " ", "R",
           "u", "n", "t", "i", "m", "e", " ", "3", ".", "0", " ", "(", "s",
           "n", "i", "p", "e", "r", ")">>],
     [tool_id |-> <<"s", "o", "l", "d", "i", "e", "r">>,
      display_label |-> <<"S", "t", "e", "a", "m", " ", "L", "i", "n", "u", "x", " ", "R",
           "u", "n", "t", "i", "m", "e", " ", "2", ".", "0", " ", "(", "s",
           "o", "l", "d", "i", "e", "r", ")">>] >>

\* default_game_properties_settings_payload; of the payload, the fields
\* the configuration file is written from
default_game_properties_settings_payload ==
  [launch_options |-> <<>>,
   force_steam_play_compatibility_tool |-> FALSE,
   steam_play_compatibility_tool |-> DEFAULT_COMPATIBILITY_TOOL,
   automatic_updates_mode |-> MODE_use_global_setting,
   background_downloads_mode |-> MODE_pause_while_playing_global,
   steam_input_override |-> MODE_use_default_settings]

RECURSIVE FirstAllowedMode(_, _, _)
\* the for loop of normalize_game_properties_mode
FirstAllowedMode(trimmed_value, allowed_modes, fallback_mode) ==
  IF allowed_modes = <<>> THEN fallback_mode
  ELSE IF eq_ignore_ascii_case(Head(allowed_modes), trimmed_value)
       THEN Head(allowed_modes)
       ELSE FirstAllowedMode(trimmed_value, Tail(allowed_modes), fallback_mode)

normalize_game_properties_mode(value, allowed_modes, fallback_mode) ==
  LET trimmed_value == Trim(value)
  IN IF trimmed_value = <<>> THEN fallback_mode
     ELSE FirstAllowedMode(trimmed_value, allowed_modes, fallback_mode)

normalize_game_properties_settings_payload(settings) ==
  LET defaults == default_game_properties_settings_payload
      compatibility_tool == Trim(settings.steam_play_compatibility_tool)
  IN [launch_options |-> Trim(settings.launch_options),
      force_steam_play_compatibility_tool |->
        settings.force_steam_play_compatibility_tool,
      steam_play_compatibility_tool |->
        IF compatibility_tool = <<>>
        THEN defaults.steam_play_compatibility_tool
        ELSE compatibility_tool,
      automatic_updates_mode |->
        normalize_game_properties_mode(
          settings.automatic_updates_mode,
          <<MODE_use_global_setting, MODE_wait_until_launch,
            MODE_let_steam_decide, MODE_immediately_download>>,
          defaults.automatic_updates_mode),
      background_downloads_mode |->
        normalize_game_properties_mode(
          settings.background_downloads_mode,
          <<MODE_pause_while_playing_global, MODE_always_allow,
            MODE_never_allow>>,
          defaults.background_downloads_mode),
      steam_input_override |->
        normalize_game_properties_mode(
          settings.steam_input_override,
          <<MODE_use_default_settings, MODE_disable_steam_input,
            MODE_enable_steam_input>>,
          defaults.steam_input_override)]

\* str::to_ascii_lowercase
ToAsciiLowercase(t) == [i \in 1..Len(t) |-> to_ascii_lowercase(t[i])]

RECURSIVE FirstBuiltinTool(_, _, _)
\* the for loop of map_compatibility_tool_label_to_steam_name
FirstBuiltinTool(normalized, tools, trimmed_label) ==
  IF tools = <<>> THEN trimmed_label
  ELSE IF \/ normalized = ToAsciiLowercase(Head(tools).tool_id)
          \/ normalized = ToAsciiLowercase(Head(tools).display_label)
       THEN Head(tools).tool_id
       ELSE FirstBuiltinTool(normalized, Tail(tools), trimmed_label)

map_compatibility_tool_label_to_steam_name(label) ==
  LET trimmed_label == Trim(label)
  IN IF trimmed_label = <<>> THEN <<>>
     ELSE FirstBuiltinTool(ToAsciiLowercase(trimmed_label),
                           STEAM_BUILTIN_COMPATIBILITY_TOOLS, trimmed_label)

DecimalDigits == <<"0", "1", "2", "3", "4", "5", "6", "7", "8", "9">>

RECURSIVE ToDecimal(_)
\* u64::to_string
ToDecimal(n) ==
  IF n < 10 THEN <<DecimalDigits[n + 1]>>
  ELSE ToDecimal(n \div 10) \o <<DecimalDigits[(n % 10) + 1]>>

\* the keys of the two vdf_ensure_object_path_mut calls made on the root
AppsPath ==
  <<KEY_UserLocalConfigStore, KEY_Software, KEY_Valve, KEY_Steam, KEY_apps>>
CompatToolMappingPath ==
  <<KEY_UserLocalConfigStore, KEY_Software, KEY_Valve, KEY_Steam,
    KEY_CompatToolMapping>>

\* the launch-options step on app_settings_object
ApplyLaunchOptions(app_settings_object, settings) ==
  LET launch_options == Trim(settings.launch_options)
  IN IF launch_options = <<>>
     THEN vdf_remove_entry(app_settings_object, KEY_LaunchOptions)
     ELSE vdf_set_text_entry(app_settings_object, KEY_LaunchOptions,
                             launch_options)

\* the match on automatic_updates_mode
ApplyAutomaticUpdates(app_settings_object, settings) ==
  LET mode == settings.automatic_updates_mode
  IN CASE mode = MODE_use_global_setting ->
            vdf_remove_entry(app_settings_object, KEY_AutoUpdateBehavior)
       [] mode = MODE_wait_until_launch ->
            vdf_set_text_entry(app_settings_object, KEY_AutoUpdateBehavior, <<"1">>)
       [] mode = MODE_let_steam_decide ->
            vdf_set_text_entry(app_settings_object, KEY_AutoUpdateBehavior, <<"0">>)
       [] mode = MODE_immediately_download ->
            vdf_set_text_entry(app_settings_object, KEY_AutoUpdateBehavior, <<"2">>)
       [] OTHER -> app_settings_object

\* the match on background_downloads_mode
ApplyBackgroundDownloads(app_settings_object, settings) ==
  LET mode == settings.background_downloads_mode
  IN CASE mode = MODE_pause_while_playing_global ->
            vdf_remove_entry(app_settings_object, KEY_AllowDownloadsWhileRunning)
       [] mode = MODE_always_allow ->
            vdf_set_text_entry(app_settings_object,
                               KEY_AllowDownloadsWhileRunning, <<"1">>)
       [] mode = MODE_never_allow ->
            vdf_set_text_entry(app_settings_object,
                               KEY_AllowDownloadsWhileRunning, <<"0">>)
       [] OTHER -> app_settings_object

\* a plausible slip: the two SteamInput values taken for each other
steam_input_values_swapped(app_settings_object, settings) ==
  LET mode == settings.steam_input_override
  IN CASE mode = MODE_use_default_settings ->
            vdf_remove_entry(app_settings_object, KEY_SteamInput)
       [] mode = MODE_disable_steam_input ->
            vdf_set_text_entry(app_settings_object, KEY_SteamInput, <<"1">>)
       [] mode = MODE_enable_steam_input ->
            vdf_set_text_entry(app_settings_object, KEY_SteamInput, <<"0">>)
       [] OTHER -> app_settings_object

\* the match on steam_input_override
ApplySteamInput(app_settings_object, settings) ==
  LET mode == settings.steam_input_override
  IN CASE mode = MODE_use_default_settings ->
            vdf_remove_entry(app_settings_object, KEY_SteamInput)
       [] mode = MODE_disable_steam_input ->
            vdf_set_text_entry(app_settings_object, KEY_SteamInput, <<"0">>)
       [] mode = MODE_enable_steam_input ->
            vdf_set_text_entry(app_settings_object, KEY_SteamInput, <<"1">>)
       [] OTHER -> app_settings_object

\* the four steps made through the app_settings_object reference
ApplyAppSettings(app_settings_object, settings) ==
  ApplySteamInput(
    ApplyBackgroundDownloads(
      ApplyAutomaticUpdates(
        ApplyLaunchOptions(app_settings_object, settings), settings),
      settings),
    settings)

\* the three vdf_set_text_entry calls on compat_mapping_entry
SetCompatMappingEntry(compat_mapping_entry, compat_name) ==
  vdf_set_text_entry(
    vdf_set_text_entry(
      vdf_set_text_entry(compat_mapping_entry, KEY_name, compat_name),
      KEY_config, <<>>),
    KEY_priority, <<"2", "5", "0">>)

\* a plausible slip: nothing done when the switch is off
compat_mapping_kept_when_off(compat_mapping_object, app_id_key, settings) ==
  IF settings.force_steam_play_compatibility_tool
  THEN LET with_entry == vdf_ensure_object_path_mut(compat_mapping_object,
                                                    <<app_id_key>>)
           compat_name == map_compatibility_tool_label_to_steam_name(
                            settings.steam_play_compatibility_tool)
       IN WriteThrough(with_entry, <<app_id_key>>,
            SetCompatMappingEntry(Deref(with_entry, <<app_id_key>>),
                                  compat_name))
  ELSE compat_mapping_object

\* the compatibility step made through the compat_mapping_object reference
ApplyCompatMapping(compat_mapping_object, app_id_key, settings) ==
  IF settings.force_steam_play_compatibility_tool
  THEN LET with_entry == vdf_ensure_object_path_mut(compat_mapping_object,
                                                    <<app_id_key>>)
           compat_name == map_compatibility_tool_label_to_steam_name(
                            settings.steam_play_compatibility_tool)
       IN IF compat_name = <<>>
          THEN vdf_remove_entry(with_entry, app_id_key)
          ELSE WriteThrough(with_entry, <<app_id_key>>,
                 SetCompatMappingEntry(Deref(with_entry, <<app_id_key>>),
                                       compat_name))
  ELSE vdf_remove_entry(compat_mapping_object, app_id_key)

\* localconfig_value between parse_vdf_document and serialize_vdf_document
\* a plausible slip: settings that are all at their defaults taken as
\* nothing to do
apply_settings_unless_default(localconfig_value, app_id, settings) ==
  IF settings = normalize_game_properties_settings_payload(
                  default_game_properties_settings_payload)
  THEN localconfig_value
  ELSE
  LET app_id_key == ToDecimal(app_id)
      with_apps == vdf_ensure_object_path_mut(localconfig_value, AppsPath)
      with_app == WriteThrough(with_apps, AppsPath,
                    vdf_ensure_object_path_mut(Deref(with_apps, AppsPath),
                                               <<app_id_key>>))
      app_ref == AppsPath \o <<app_id_key>>
      with_settings == WriteThrough(with_app, app_ref,
                         ApplyAppSettings(Deref(with_app, app_ref), settings))
      with_compat == vdf_ensure_object_path_mut(with_settings,
                                                CompatToolMappingPath)
  IN WriteThrough(with_compat, CompatToolMappingPath,
       ApplyCompatMapping(Deref(with_compat, CompatToolMappingPath),
                          app_id_key, settings))

ApplySettingsToValue(localconfig_value, app_id, settings) ==
  LET app_id_key == ToDecimal(app_id)
      with_apps == vdf_ensure_object_path_mut(localconfig_value, AppsPath)
      with_app == WriteThrough(with_apps, AppsPath,
                    vdf_ensure_object_path_mut(Deref(with_apps, AppsPath),
                                               <<app_id_key>>))
      app_ref == AppsPath \o <<app_id_key>>
      with_settings == WriteThrough(with_app, app_ref,
                         ApplyAppSettings(Deref(with_app, app_ref), settings))
      with_compat == vdf_ensure_object_path_mut(with_settings,
                                                CompatToolMappingPath)
  IN WriteThrough(with_compat, CompatToolMappingPath,
       ApplyCompatMapping(Deref(with_compat, CompatToolMappingPath),
                          app_id_key, settings))

\* a localconfig.vdf that is not there: resolve_steam_localconfig_path
\* finds no file at the path
NoFile == <<"no such file">>
\* a localconfig.vdf that fs::read_to_string cannot read
UnreadableFile == <<"permission denied">>

\* the path resolve_steam_localconfig_path gives
LOCALCONFIG_PATH ==
  <<"/", "o", "/", "u", "s", "e", "r", "d", "a", "t", "a", "/", "7", "6", "/",
    "c", "o", "n", "f", "i", "g", "/", "l", "o", "c", "a", "l", "c", "o", "n",
    "f", "i", "g", ".", "v", "d", "f">>

ErrNoLocalconfig ==
  <<"Could not locate Steam localconfig.vdf at {}", LOCALCONFIG_PATH>>
ErrReadLocalconfig ==
  <<"Failed to read Steam localconfig at {}: {error}", LOCALCONFIG_PATH>>
ErrWriteLocalconfig ==
  <<"Failed to write Steam localconfig at {}: {error}", LOCALCONFIG_PATH>>

\* Ok carries the text fs::write wrote, Err the message; the file is
\* written only on Ok
apply_steam_game_properties_settings(file, writable, app_id, settings) ==
  IF file = NoFile THEN [ok |-> FALSE, written |-> <<>>, err |-> ErrNoLocalconfig]
  ELSE IF file = UnreadableFile
    THEN [ok |-> FALSE, written |-> <<>>, err |-> ErrReadLocalconfig]
  ELSE LET localconfig_value == parse_vdf_document(file)
       IN IF ~localconfig_value.ok
          THEN [ok |-> FALSE, written |-> <<>>, err |-> localconfig_value.err]
          ELSE IF ~writable
          THEN [ok |-> FALSE, written |-> <<>>, err |-> ErrWriteLocalconfig]
          ELSE [ok |-> TRUE,
                written |-> serialize_vdf_document(
                  ApplySettingsToValue(localconfig_value.value, app_id,
                                       settings)),
                err |-> <<>>]


-----------------------------------------------------------------------------
(* SpecSettings: set_game_properties_settings calls for Steam games, each one
   normalizing the payload it was given and applying it to localconfig.vdf *)

\* the most calls made on one file
MaxApplies == 2

AppIds == {7, 42}

Payload(lo, force, tool, au, bg, si) ==
  [launch_options |-> lo,
   force_steam_play_compatibility_tool |-> force,
   steam_play_compatibility_tool |-> tool,
   automatic_updates_mode |-> au,
   background_downloads_mode |-> bg,
   steam_input_override |-> si]

\* payloads as a front end sends them, before normalization
Payloads ==
  { Payload(<<" ", "-", "w", " ", QUOTE, "a", BACKSLASH, BACKSLASH, "b", QUOTE,
              " ">>, TRUE, <<"P", "r", "o", "t", "o", "n", " ", "9", ".", "0", "-", "4">>,
            <<" ", "L", "e", "t", "-", "S", "t", "e", "a", "m", "-", "D", "e",
              "c", "i", "d", "e">>, MODE_always_allow,
            MODE_disable_steam_input),
    Payload(<<>>, TRUE, <<" ", "G", "E", "-", "P", "r", "o", "t", "o", "n", " ">>, MODE_wait_until_launch,
            MODE_never_allow, MODE_enable_steam_input),
    Payload(<<"-", "o", "l", "d">>, FALSE, <<>>, MODE_immediately_download,
            <<"b", "o", "g", "u", "s">>, <<>>),
    Payload(<<"-", "w">>, TRUE, <<" ", " ">>, MODE_use_global_setting,
            MODE_pause_while_playing_global, MODE_use_default_settings) }

Obj(k, es) == Entry(k, VdfObject(es))
Txt(k, t) == Entry(k, VdfText(t))

\* a localconfig.vdf as Steam writes it: two games, other sections, a game
\* with a setting under two spellings, a game id that holds a leaf
SteamWrittenConfig ==
  VdfObject(<<
    Obj(KEY_UserLocalConfigStore, <<
      Obj(<<"f", "r", "i", "e", "n", "d", "s">>, << Txt(<<"n">>, <<"x">>) >>),
      Obj(KEY_Software, <<
        Obj(KEY_Valve, <<
          Obj(KEY_Steam, <<
            Txt(<<"x">>, <<"y">>),
            Obj(KEY_apps, <<
              Obj(<<"7">>, <<
                Txt(KEY_LaunchOptions, <<"-", "o", "l", "d">>),
                Txt(<<"P", "l", "a", "y", "t", "i", "m", "e">>, <<"3">>),
                Txt(<<"l", "a", "u", "n", "c", "h", "o", "p", "t", "i", "o", "n", "s">>, <<"d", "u", "p">>),
                Txt(KEY_SteamInput, <<"1">>) >>),
              Txt(<<"4", "2">>, <<"l", "e", "a", "f">>),
              Obj(<<"8">>, << Txt(KEY_LaunchOptions, <<"-", "k">>) >>) >>),
            Obj(KEY_CompatToolMapping, <<
              Obj(<<"7">>, <<
                Txt(KEY_name, <<"p", "r", "o", "t", "o", "n", "_", "8">>),
                Txt(<<"x">>, <<"y">>) >>),
              Obj(<<"8">>, << Txt(KEY_name, <<"s", "n", "i", "p", "e", "r">>) >>),
              Txt(<<"7">>, <<"d", "u", "p">>) >>),
            Obj(KEY_apps, << Obj(<<"7">>, << Txt(KEY_SteamInput, <<"0">>) >>) >>)
          >>) >>) >>),
      Txt(KEY_Software, <<"d", "u", "p">>) >>),
    Txt(<<"z">>, <<"w">>) >>)

\* texts that need escaping, under a game's settings
EscapedConfig ==
  VdfObject(<<
    Obj(KEY_UserLocalConfigStore, <<
      Obj(KEY_Software, <<
        Obj(KEY_Valve, <<
          Obj(KEY_Steam, <<
            Obj(KEY_apps, <<
              Obj(<<"4", "2">>, <<
                Txt(<<"a", QUOTE, "b">>, <<"c", BACKSLASH, BACKSLASH, "d", NEWLINE, "e", TAB, "f">>),
                Txt(KEY_AutoUpdateBehavior, <<"2">>) >>) >>) >>) >>) >>) >>) >>)

\* the files the calls start from
InitialConfigs ==
  { <<>>,
    NoFile,
    serialize_vdf_document(SteamWrittenConfig),
    serialize_vdf_document(EscapedConfig),
    \* the first key of the path holds a leaf
    <<QUOTE, "U", "s", "e", "r", "L", "o", "c", "a", "l", "C", "o",
      "n", "f", "i", "g", "S", "t", "o", "r", "e", QUOTE, " ", QUOTE,
      "l", "e", "a", "f", QUOTE, NEWLINE, QUOTE, "x", QUOTE, " ",
      QUOTE, "y", QUOTE, NEWLINE>>,
    \* hand-edited: other letter case, bare tokens, a comment, a key twice
    <<"u", "s", "e", "r", "l", "o", "c", "a", "l", "c", "o", "n", "f",
      "i", "g", "s", "t", "o", "r", "e", "{", "/", "/", " ", "m", "i",
      "n", "e", NEWLINE, "S", "O", "F", "T", "W", "A", "R", "E", "{",
      "v", "a", "l", "v", "e", "{", "s", "t", "e", "a", "m", "{", "A",
      "P", "P", "S", "{", "7">> \o
    <<"{", "A", "u", "t", "o", "U", "p", "d", "a", "t", "e", "B", "e",
      "h", "a", "v", "i", "o", "r", " ", "1", " ", "a", "u", "t", "o",
      "u", "p", "d", "a", "t", "e", "b", "e", "h", "a", "v", "i", "o",
      "r", " ", "2", " ", "k", " ", "v", "}", "}", "a", "p", "p", "s",
      "{", "7", "{", "k", " ", "v", "}", "}">> \o
    <<"c", "o", "m", "p", "a", "t", "t", "o", "o", "l", "m", "a", "p",
      "p", "i", "n", "g", " ", "l", "e", "a", "f", "}", "}", "}", "}">>,
    \* cut short: the last key has no value
    <<QUOTE, "U", "s", "e", "r", "L", "o", "c", "a", "l", "C", "o",
      "n", "f", "i", "g", "S", "t", "o", "r", "e", QUOTE, NEWLINE, "{",
      NEWLINE, TAB, QUOTE, "S", "o", "f", "t", "w", "a", "r", "e",
      QUOTE, NEWLINE>> }

InitSettings ==
  /\ localconfig \in InitialConfigs
  /\ localconfig_writable = TRUE
  /\ applied = <<>>
  /\ IdleVdf
  /\ IdleState
  /\ IdleMut
  /\ IdleLib
  /\ IdleScans

\* eprintln!("Could not apply Steam game properties for app {}: {}", ..):
\* the lines the handler logs for the result of the apply
LoggedApplyError(app_id, result) ==
  IF result.ok THEN <<>>
  ELSE << <<"Could not apply Steam game properties for app {}: {}", app_id,
            result.err>> >>

\* a plausible slip: the error of the apply handed on to the caller with ?
save_result_propagating(result) ==
  IF result.ok THEN Ok(<<>>) ELSE Err(result.err)

\* if let Err(error) = apply_steam_game_properties_settings(..) { .. }
\* Ok(()): what the handler returns after the apply
save_result(result) == Ok(<<>>)

\* set_game_properties_settings for the Steam game app_id of a signed-in
\* owner: the payload is normalized and applied; the file is rewritten when
\* the apply succeeded, an error of the apply is logged
SetGamePropertiesSettings(app_id, settings) ==
  /\ Len(applied) < MaxApplies
  /\ LET normalized_settings ==
           normalize_game_properties_settings_payload(settings)
         result == apply_steam_game_properties_settings(
                     localconfig, localconfig_writable, app_id,
                     normalized_settings)
     IN /\ localconfig' = IF result.ok THEN result.written ELSE localconfig
        /\ applied' = Append(applied,
                        [app_id |-> app_id,
                         settings |-> normalized_settings,
                         read |-> localconfig,
                         result |-> result,
                         logged |-> LoggedApplyError(app_id, result),
                         returned |-> save_result(result)])
  /\ UNCHANGED localconfig_writable
  /\ UNCHANGED <<vdfVars, stateVars, mutVars, libVars, scanVars>>

NextSettings ==
  \E app_id \in AppIds, settings \in Payloads :
    SetGamePropertiesSettings(app_id, settings)

SpecSettings == InitSettings /\ [][NextSettings]_vars

\* a small localconfig.vdf: one game with launch options
SmallConfig ==
  VdfObject(<<
    Obj(KEY_UserLocalConfigStore, <<
      Obj(KEY_Software, <<
        Obj(KEY_Valve, <<
          Obj(KEY_Steam, <<
            Obj(KEY_apps, <<
              Obj(<<"7">>, <<
                Txt(KEY_LaunchOptions, <<"-", "w">>) >>) >>) >>) >>) >>) >>) >>)

\* the files of a save that may fail: none, one that cannot be read, one
\* cut short, a small one
FailingConfigs ==
  { NoFile, UnreadableFile,
    <<QUOTE, "a", QUOTE, " ", "{">>,
    serialize_vdf_document(SmallConfig) }

\* the file may be read-only
InitSave ==
  /\ localconfig \in FailingConfigs
  /\ localconfig_writable \in BOOLEAN
  /\ applied = <<>>
  /\ IdleVdf
  /\ IdleState
  /\ IdleMut
  /\ IdleLib
  /\ IdleScans

SpecSave == InitSave /\ [][NextSettings]_vars


-----------------------------------------------------------------------------
(* Claims checked under SpecSettings *)

\* the apply a state was reached by; every apply is the last one of the
\* state it led to
LastApply == IF applied = <<>> THEN {} ELSE {Len(applied)}

\* C3. Settings edit idempotence: when a call applied a normalized settings
\* object for a game and the next call applies the same object for the same
\* game, the second call writes the very text the first one wrote.
C3_ApplyIdempotent ==
  \A i \in 1..(Len(applied) - 1) :
    ( /\ applied[i].result.ok
      /\ applied[i + 1].app_id = applied[i].app_id
      /\ applied[i + 1].settings = applied[i].settings )
    => /\ applied[i + 1].result.ok
       /\ applied[i + 1].result.written = applied[i].result.written

\* the same settings, forcing a compatibility tool, were applied twice to a
\* file that the first apply changed
C3_Witness ==
  /\ Len(applied) = 2
  /\ applied[1].result.ok /\ applied[2].result.ok
  /\ applied[2].app_id = applied[1].app_id
  /\ applied[2].settings = applied[1].settings
  /\ applied[1].settings.force_steam_play_compatibility_tool
  /\ applied[1].settings.launch_options # <<>>
  /\ applied[1].read # <<>>
  /\ applied[1].result.written # applied[1].read

\* the keys a settings apply sets or removes in a game's object
SettingKeys ==
  { KEY_LaunchOptions, KEY_AutoUpdateBehavior,
    KEY_AllowDownloadsWhileRunning, KEY_SteamInput }

\* the key paths a settings apply for the game works on: each setting of the
\* game under apps, and the game's entry under CompatToolMapping
TouchedPaths(app_id) ==
  { AppsPath \o <<ToDecimal(app_id), k>> : k \in SettingKeys }
    \cup { CompatToolMappingPath \o <<ToDecimal(app_id)>> }

\* entry i of an object is on one of the paths: it is the entry a path goes
\* through, or it carries the last key of a path
OnPath(entries, i, paths) ==
  \E p \in paths :
    IF Len(p) = 1 THEN eq_ignore_ascii_case(entries[i].key, p[1])
    ELSE Position(entries, p[1]) = i

\* the entries of an object that are on none of the paths, in their order
OffPath(entries, paths) ==
  LET kept == SelectSeq([i \in 1..Len(entries) |-> i],
                        LAMBDA i : ~OnPath(entries, i, paths))
  IN [j \in 1..Len(kept) |-> entries[kept[j]]]

RECURSIVE Preserved(_, _, _)
\* the entries off the paths are the same, with the same values and in the
\* same order, in the objects b (before) and a (after) and in the objects
\* the paths go through below them
Preserved(b, a, paths) ==
  /\ OffPath(b, paths) = OffPath(a, paths)
  /\ \A k \in {p[1] : p \in {q \in paths : Len(q) > 1}} :
       LET below == {Tail(p) : p \in {q \in paths : Len(q) > 1 /\ q[1] = k}}
           bi == Position(b, k)
           ai == Position(a, k)
           inside == IF bi # 0 /\ b[bi].value.kind = "Object"
                     THEN b[bi].value.entries ELSE <<>>
       IN /\ ai # 0
          /\ a[ai].value.kind = "Object"
          /\ Preserved(inside, a[ai].value.entries, below)

\* C4. A settings apply for game A keeps everything else in the tree: every
\* entry that is neither on a path to one of A's settings under apps nor on
\* the path to A's entry under CompatToolMapping is in the file written with
\* the key, the value and the place among its siblings it had in the file
\* read.
C4_ApplyPreservesRest ==
  \A i \in LastApply :
    applied[i].result.ok =>
      Preserved(parse_vdf_document(applied[i].read).value.entries,
                parse_vdf_document(applied[i].result.written).value.entries,
                TouchedPaths(applied[i].app_id))

\* settings were applied for game 7 to the file that holds two games, other
\* sections and other keys of game 7, and the file changed
C4_Witness ==
  \E i \in 1..Len(applied) :
    /\ applied[i].result.ok
    /\ applied[i].app_id = 7
    /\ applied[i].read = serialize_vdf_document(SteamWrittenConfig)
    /\ applied[i].result.written # applied[i].read
    /\ applied[i].settings.force_steam_play_compatibility_tool

-----------------------------------------------------------------------------
(* The library directories of a Steam root *)

\* Path::join with a relative name: a separator is added unless the path
\* is empty or ends with one
Join(path, name) ==
  IF path = <<>> \/ path[Len(path)] = "/" THEN path \o name
  ELSE path \o <<"/">> \o name

STEAMAPPS == <<"s", "t", "e", "a", "m", "a", "p", "p", "s">>
LIBRARYFOLDERS_VDF == <<"l", "i", "b", "r", "a", "r", "y", "f", "o", "l", "d", "e", "r", "s", ".", "v", "d", "f">>

\* a plausible slip: the directory pushed without asking seen_directories
push_directory_unseen(steamapps_directories, steamapps_directory) ==
  Append(steamapps_directories, steamapps_directory)

\* if seen_directories.insert(d.clone()) { steamapps_directories.push(d) }:
\* seen_directories holds what was pushed, compared as PathBuf
push_directory(steamapps_directories, steamapps_directory) ==
  IF \E i \in 1..Len(steamapps_directories) :
       Components(steamapps_directories[i]) = Components(steamapps_directory)
  THEN steamapps_directories
  ELSE Append(steamapps_directories, steamapps_directory)

RECURSIVE PushLibraryPaths(_, _)
\* for library_path in library_paths
PushLibraryPaths(steamapps_directories, paths) ==
  IF paths = <<>> THEN steamapps_directories
  ELSE PushLibraryPaths(
         push_directory(steamapps_directories, Join(Head(paths), STEAMAPPS)),
         Tail(paths))

ErrReadLibraryFolders(path, kind) ==
  <<"Failed to read Steam library folder file at", path, kind>>

\* read is what fs::read_to_string gives for the index file: kind "Ok"
\* with the text, or the kind of the io::Error
resolve_steamapps_directories(steam_root, read) ==
  LET root_steamapps_directory == Join(steam_root, STEAMAPPS)
      steamapps_directories == push_directory(<<>>, root_steamapps_directory)
      library_folders_path == Join(root_steamapps_directory, LIBRARYFOLDERS_VDF)
  IN IF read.kind = "NotFound" THEN Ok(steamapps_directories)
     ELSE IF read.kind # "Ok"
       THEN Err(ErrReadLibraryFolders(library_folders_path, read.kind))
     ELSE Ok(PushLibraryPaths(steamapps_directories,
                              parse_steam_libraryfolder_paths(read.text)))

-----------------------------------------------------------------------------
(* SpecTopo: the library directories of a root are resolved *)

\* the most lines of the index file of a root
MaxLibraries == 2

\* roots as resolve_steam_root_path gives them
TopoRoots == { <<"/", "r">>, <<"/", "r", "/">>, <<"/", "s">> }
\* declared paths: the root itself in three spellings, two other libraries
TopoValues == { <<"/", "r">>, <<"/", "/", "r">>, <<"/", "r", "/", ".">>, <<"/", "x">>, <<"/", "x", "/">>, <<"/", "y">> }
TopoLines ==
  { <<TAB, TAB>> \o k \o <<TAB, TAB, QUOTE>> \o v \o <<QUOTE, NEWLINE>> :
      k \in { PathKey, <<QUOTE, "1", QUOTE>> }, v \in TopoValues }

RECURSIVE TopoFiles(_)
TopoFiles(n) ==
  IF n = 0 THEN {<<>>}
  ELSE LET shorter == TopoFiles(n - 1)
       IN shorter \cup {f \o l : f \in shorter, l \in TopoLines}

TopoReads ==
  { [kind |-> "Ok", text |-> f] : f \in TopoFiles(MaxLibraries) }
  \cup { [kind |-> "NotFound", text |-> <<>>],
         [kind |-> "PermissionDenied", text |-> <<>>] }

InitTopo ==
  /\ topo_root \in TopoRoots
  /\ topo_index \in TopoReads
  /\ topo_result = Ok(<<>>)
  /\ topo_pc = "ready"
  /\ IdleVdf
  /\ IdleState
  /\ IdleMut
  /\ IdleLib
  /\ IdleSettings
  /\ IdleProgress
  /\ IdleCollections
  /\ IdleRoot
  /\ IdleLate

ResolveSteamappsDirectories ==
  /\ topo_pc = "ready"
  /\ topo_result' = resolve_steamapps_directories(topo_root, topo_index)
  /\ topo_pc' = "resolved"
  /\ UNCHANGED <<topo_root, topo_index>>
  /\ UNCHANGED <<vdfVars, stateVars, mutVars, libVars, setVars,
                 progVars, collVars, rootVars,
                 lateVars>>

NextTopo == ResolveSteamappsDirectories

SpecTopo == InitTopo /\ [][NextTopo]_vars

\* the paths the index declares, and the first line that declares the
\* directory d
DeclaredPaths == parse_steam_libraryfolder_paths(topo_index.text)
FirstDeclared(d) ==
  CHOOSE i \in 1..Len(DeclaredPaths) :
    /\ Components(Join(DeclaredPaths[i], STEAMAPPS)) = Components(d)
    /\ \A j \in 1..(i - 1) :
         Components(Join(DeclaredPaths[j], STEAMAPPS)) # Components(d)

\* C11: the resolved list starts with the root's own steamapps directory;
\* after it come the steamapps directories of the declared library paths,
\* each of them present, in the order of their first appearance; no
\* directory (compared as a path, by components) occurs twice, so a declared
\* path equal to the root adds nothing; a missing index file gives the
\* one-element list.
C11_RootFirstNoDuplicates ==
  (topo_pc = "resolved" /\ topo_index.kind # "PermissionDenied") =>
    LET dirs == topo_result.value
        own == Join(topo_root, STEAMAPPS)
    IN /\ topo_result.ok
       /\ Len(dirs) >= 1
       /\ dirs[1] = own
       /\ \A i, j \in 1..Len(dirs) :
            i # j => Components(dirs[i]) # Components(dirs[j])
       /\ topo_index.kind = "NotFound" => dirs = <<own>>
       /\ topo_index.kind = "Ok" =>
            /\ \A k \in 1..Len(DeclaredPaths) :
                 \E i \in 1..Len(dirs) :
                   Components(dirs[i]) =
                     Components(Join(DeclaredPaths[k], STEAMAPPS))
            /\ \A i \in 2..Len(dirs) :
                 \E k \in 1..Len(DeclaredPaths) :
                   dirs[i] = Join(DeclaredPaths[k], STEAMAPPS)
            /\ \A i, j \in 2..Len(dirs) :
                 i < j => FirstDeclared(dirs[i]) < FirstDeclared(dirs[j])

\* an index that declares the root itself and then another library: two
\* directories come back
C11_Witness ==
  /\ topo_pc = "resolved"
  /\ topo_index.kind = "Ok"
  /\ Len(DeclaredPaths) = 2
  /\ Components(DeclaredPaths[1]) = Components(topo_root)
  /\ Components(DeclaredPaths[2]) # Components(topo_root)
  /\ Len(topo_result.value) = 2

-----------------------------------------------------------------------------
(* The download progress of an app manifest *)

NoLineMatch == [matched |-> FALSE, key |-> <<>>, value |-> <<>>]

\* line_pattern.captures(line): ^\s*"([^"]+)"\s*"([^"]*)"
line_pattern(line) ==
  LET key_open == SkipWhitespace(line, 1)
      key_close == NextQuote(line, key_open + 1)
      value_open == SkipWhitespace(line, key_close + 1)
      value_close == NextQuote(line, value_open + 1)
  IN IF /\ key_open <= Len(line)
        /\ line[key_open] = QUOTE
        /\ key_close <= Len(line)
        /\ key_close > key_open + 1
        /\ value_open <= Len(line)
        /\ line[value_open] = QUOTE
        /\ value_close <= Len(line)
     THEN [matched |-> TRUE,
           key |-> SubSeq(line, key_open + 1, key_close - 1),
           value |-> SubSeq(line, value_open + 1, value_close - 1)]
     ELSE NoLineMatch

RECURSIVE FirstFieldLine(_, _)
\* the for loop: the first line whose key is the field decides
FirstFieldLine(lines, normalized_field_name) ==
  IF lines = <<>> THEN None
  ELSE LET captures == line_pattern(Head(lines))
       IN IF \/ ~captures.matched
             \/ ~eq_ignore_ascii_case(captures.key, normalized_field_name)
          THEN FirstFieldLine(Tail(lines), normalized_field_name)
          ELSE LET trimmed_value == Trim(decode_steam_vdf_value(captures.value))
               IN IF trimmed_value = <<>> THEN None ELSE Some(trimmed_value)

parse_steam_manifest_string_field(manifest_contents, field_name) ==
  LET normalized_field_name == Trim(field_name)
  IN IF normalized_field_name = <<>> THEN None
     ELSE FirstFieldLine(Lines(manifest_contents), normalized_field_name)

\* the value of a digit
DigitValue(c) == CHOOSE n \in 0..9 : DecimalDigits[n + 1] = c

RECURSIVE DecimalValue(_)
DecimalValue(digits) ==
  IF digits = <<>> THEN 0
  ELSE 10 * DecimalValue(SubSeq(digits, 1, Len(digits) - 1))
       + DigitValue(digits[Len(digits)])

\* u64::MAX, 18446744073709551615, has twenty digits
U64_MAX_DIGITS == 20

RECURSIVE StripZeros(_)
StripZeros(digits) ==
  IF Len(digits) > 1 /\ Head(digits) = "0" THEN StripZeros(Tail(digits))
  ELSE digits

\* str::parse::<u64>().ok(): an optional '+', then digits only; a number
\* of more digits than u64::MAX overflows
ParseU64(t) ==
  LET digits == IF t # <<>> /\ Head(t) = "+" THEN Tail(t) ELSE t
  IN IF /\ digits # <<>>
        /\ \A i \in 1..Len(digits) : digits[i] \in Digits
        /\ Len(StripZeros(digits)) <= U64_MAX_DIGITS
     THEN Some(DecimalValue(digits)) ELSE None

parse_steam_manifest_u64_field(manifest_contents, field_name) ==
  LET field == parse_steam_manifest_string_field(manifest_contents, field_name)
  IN IF field.some THEN ParseU64(field.value) ELSE None

FIELD_installdir == <<"i", "n", "s", "t", "a", "l", "l", "d", "i", "r">>
FIELD_SizeOnDisk == <<"S", "i", "z", "e", "O", "n", "D", "i", "s", "k">>

\* a pattern that spells the field out, ^\s*"<name>"\s*"([^"]+)": the
\* name is matched letter by letter as written
named_field_pattern(line, name) ==
  LET start == SkipWhitespace(line, 1)
      close == start + Len(name) + 1
  IN IF /\ close <= Len(line)
        /\ SubSeq(line, start, close) = <<QUOTE>> \o name \o <<QUOTE>>
     THEN MatchQuotedValue(line, close + 1)
     ELSE NoMatch

ErrNoInstallDirectory ==
  <<"Could not determine install directory from Steam app manifest.">>

RECURSIVE FirstInstallDirectory(_)
\* the for loop: the first line that matches and holds a name decides
FirstInstallDirectory(lines) ==
  IF lines = <<>>
  THEN [ok |-> FALSE, value |-> <<>>, err |-> ErrNoInstallDirectory]
  ELSE LET captures == named_field_pattern(Head(lines), FIELD_installdir)
           trimmed_install_dir ==
             Trim(decode_steam_vdf_value(captures.capture))
       IN IF ~captures.matched \/ trimmed_install_dir = <<>>
          THEN FirstInstallDirectory(Tail(lines))
          ELSE [ok |-> TRUE, value |-> trimmed_install_dir, err |-> <<>>]

parse_steam_manifest_install_directory(manifest_contents) ==
  FirstInstallDirectory(Lines(manifest_contents))

RECURSIVE FirstSizeOnDisk(_)
\* the for loop: the first line that matches and holds a number decides
FirstSizeOnDisk(lines) ==
  IF lines = <<>> THEN None
  ELSE LET captures == named_field_pattern(Head(lines), FIELD_SizeOnDisk)
           trimmed_size == Trim(decode_steam_vdf_value(captures.capture))
       IN IF ~captures.matched \/ trimmed_size = <<>>
               \/ ~ParseU64(trimmed_size).some
          THEN FirstSizeOnDisk(Tail(lines))
          ELSE ParseU64(trimmed_size)

parse_steam_manifest_size_on_disk_bytes(manifest_contents) ==
  FirstSizeOnDisk(Lines(manifest_contents))

\* a plausible slip: the second field is never consulted
or_else_dropped(first, second) == first

\* Option::or_else
OrElse(first, second) == IF first.some THEN first ELSE second

FIELD_BytesToDownload == <<"B", "y", "t", "e", "s", "T", "o", "D", "o", "w", "n", "l", "o", "a", "d">>
FIELD_TotalDownloaded == <<"T", "o", "t", "a", "l", "D", "o", "w", "n", "l", "o", "a", "d", "e", "d">>
FIELD_BytesDownloaded == <<"B", "y", "t", "e", "s", "D", "o", "w", "n", "l", "o", "a", "d", "e", "d">>
FIELD_BytesDownloadedOnCurrentRun == <<"B", "y", "t", "e", "s", "D", "o", "w", "n", "l", "o", "a", "d", "e", "d", "O", "n", "C", "u", "r", "r", "e", "n", "t", "R", "u", "n">>
FIELD_StateFlags == <<"S", "t", "a", "t", "e", "F", "l", "a", "g", "s">>

parse_steam_manifest_download_progress(manifest_contents) ==
  [ state_flags |->
      parse_steam_manifest_u64_field(manifest_contents, FIELD_StateFlags),
    bytes_downloaded |->
      OrElse(parse_steam_manifest_u64_field(manifest_contents,
                                            FIELD_BytesDownloaded),
             parse_steam_manifest_u64_field(manifest_contents,
                                            FIELD_BytesDownloadedOnCurrentRun)),
    bytes_total |->
      OrElse(parse_steam_manifest_u64_field(manifest_contents,
                                            FIELD_BytesToDownload),
             parse_steam_manifest_u64_field(manifest_contents,
                                            FIELD_TotalDownloaded)) ]

\* progress_snapshot.bytes_total.filter(|value| *value > 0)
filter_bytes_total(snapshot_total) ==
  IF snapshot_total.some /\ snapshot_total.value > 0 THEN snapshot_total
  ELSE None

\* let bytes_downloaded = match (progress_snapshot.bytes_downloaded, bytes_total)
default_bytes_downloaded(snapshot_downloaded, bytes_total) ==
  IF snapshot_downloaded.some THEN snapshot_downloaded
  ELSE IF bytes_total.some THEN Some(0)
  ELSE None

\* a plausible slip: a finished download still counted as in progress
has_progress_or_complete(bytes_downloaded, bytes_total) ==
  bytes_downloaded.some /\ bytes_total.some
    /\ bytes_downloaded.value <= bytes_total.value

\* let has_progress = match (bytes_downloaded, bytes_total)
derive_has_progress(bytes_downloaded, bytes_total) ==
  bytes_downloaded.some /\ bytes_total.some
    /\ bytes_downloaded.value < bytes_total.value

Min(a, b) == IF a <= b THEN a ELSE b

\* f64::clamp(0.0, 100.0) on the fraction num / den, den > 0
Clamp(fraction) ==
  IF fraction.num < 0 THEN [num |-> 0, den |-> 1]
  ELSE IF fraction.num > 100 * fraction.den THEN [num |-> 100, den |-> 1]
  ELSE fraction

\* a plausible slip: the percentage taken without min and clamp
progress_percent_unclamped(bytes_downloaded, bytes_total) ==
  IF bytes_downloaded.some /\ bytes_total.some /\ bytes_total.value > 0
  THEN Some([num |-> bytes_downloaded.value * 100, den |-> bytes_total.value])
  ELSE None

\* let progress_percent = match (bytes_downloaded, bytes_total): the
\* percentage is kept as the exact fraction num / den.  The f64 the code
\* computes is that fraction rounded; rounding keeps the order of values
\* and is exact at 0 and at 100 (x / x = 1.0, 1.0 * 100.0 = 100.0)
progress_percent(bytes_downloaded, bytes_total) ==
  IF bytes_downloaded.some /\ bytes_total.some /\ bytes_total.value > 0
  THEN Some(Clamp([num |-> Min(bytes_downloaded.value, bytes_total.value) * 100,
                   den |-> bytes_total.value]))
  ELSE None

\* the body of the for loop from the parsed manifest on, for an owned game
\* not seen before: the values derived on the way and, when a state label
\* was inferred, the item pushed
collect_manifest_progress(snapshot, active_download_directory) ==
  LET bytes_total == filter_bytes_total(snapshot.bytes_total)
      bytes_downloaded ==
        default_bytes_downloaded(snapshot.bytes_downloaded, bytes_total)
      progress_derived == derive_has_progress(bytes_downloaded, bytes_total)
      flags == IF snapshot.state_flags.some
               THEN snapshot.state_flags.value ELSE 0
      state_label ==
        infer_steam_download_state(flags, progress_derived,
                                   active_download_directory)
  IN [ progress_snapshot |-> snapshot,
       has_progress |-> progress_derived,
       state_flags |-> flags,
       pushed |-> state_label # NoState,
       state |-> state_label,
       bytes_downloaded |-> bytes_downloaded,
       bytes_total |-> bytes_total,
       progress_percent |-> progress_percent(bytes_downloaded, bytes_total) ]

-----------------------------------------------------------------------------
(* SpecProgress: the manifest of an owned game is read and its download
   progress derived *)

\* the largest byte counter of a manifest
MaxBytes == 2

ManifestLine(key, value) ==
  <<TAB, QUOTE>> \o key \o <<QUOTE, TAB, TAB, QUOTE>> \o value
    \o <<QUOTE, NEWLINE>>

\* a field of a manifest: no line, or a line with one of the values
FieldLines(key, values) == {<<>>} \cup {ManifestLine(key, v) : v \in values}

ByteCounts == {ToDecimal(n) : n \in 0..MaxBytes}

\* how a manifest spells its field names: as the platform does, or in
\* another letter case
Spellings == {"canonical", "other"}
Spelled(name, spelling) ==
  IF spelling = "canonical" THEN name
  ELSE IF name = FIELD_installdir THEN <<"I", "n", "s", "t", "a", "l", "l", "D", "i", "r">>
  ELSE ToAsciiLowercase(name)

\* the install directory and the size on disk of a manifest: both lines or
\* none
DetailLines(spelling) ==
  { <<>>,
    ManifestLine(Spelled(FIELD_installdir, spelling), <<"G", "a", "m", "e">>)
      \o ManifestLine(Spelled(FIELD_SizeOnDisk, spelling), <<"5">>) }

\* manifests as the platform writes them: a header, the fields in the
\* platform's order, each there or not
ManifestsSpelled(spelling) ==
  { <<QUOTE>> \o <<"A", "p", "p", "S", "t", "a", "t", "e">> \o <<QUOTE, NEWLINE, "{", NEWLINE>>
      \o details \o flags \o total \o downloaded \o fallback_total
      \o current_run \o <<"}", NEWLINE>> :
    details \in DetailLines(spelling),
    flags \in FieldLines(Spelled(FIELD_StateFlags, spelling),
                         {<<"4">>, <<"1", "0", "2", "4">>}),
    total \in FieldLines(Spelled(FIELD_BytesToDownload, spelling),
                         ByteCounts \cup {<<>>}),
    downloaded \in FieldLines(Spelled(FIELD_BytesDownloaded, spelling),
                              ByteCounts \cup {<<"x">>}),
    fallback_total \in FieldLines(Spelled(FIELD_TotalDownloaded, spelling),
                                  {<<"0">>, <<"1">>}),
    current_run \in FieldLines(Spelled(FIELD_BytesDownloadedOnCurrentRun, spelling),
                               {<<"1">>}) }

Manifests == UNION { ManifestsSpelled(spelling) : spelling \in Spellings }

\* what is read from a manifest for the installation details of a game
read_manifest_details(manifest_contents) ==
  [ install_directory |->
      parse_steam_manifest_install_directory(manifest_contents),
    size_on_disk_bytes |->
      parse_steam_manifest_size_on_disk_bytes(manifest_contents) ]

NoDetails ==
  [ install_directory |-> [ok |-> FALSE, value |-> <<>>, err |-> <<>>],
    size_on_disk_bytes |-> None ]

\* before a manifest is read: no field parsed, nothing derived
NoSnapshot ==
  [state_flags |-> None, bytes_downloaded |-> None, bytes_total |-> None]
NoProgress == collect_manifest_progress(NoSnapshot, FALSE)

InitProgress ==
  /\ manifest \in Manifests
  /\ download_dir \in BOOLEAN
  /\ progress_snapshot = NoSnapshot
  /\ download_progress = NoProgress
  /\ manifest_details = NoDetails
  /\ prog_pc = "ready"
  /\ IdleVdf
  /\ IdleState
  /\ IdleMut
  /\ IdleLib
  /\ IdleSettings
  /\ IdleTopo
  /\ IdleCollections
  /\ IdleRoot
  /\ IdleLate

CollectManifestProgress ==
  /\ prog_pc = "ready"
  /\ progress_snapshot' = parse_steam_manifest_download_progress(manifest)
  /\ download_progress' =
       collect_manifest_progress(progress_snapshot', download_dir)
  /\ prog_pc' = "scanned"
  /\ UNCHANGED <<manifest, download_dir, manifest_details>>
  /\ UNCHANGED <<vdfVars, stateVars, mutVars, libVars, setVars,
                 topoVars, collVars, rootVars,
                 lateVars>>

\* the manifest is read for the installation details of the game
ReadManifestDetails ==
  /\ prog_pc = "scanned"
  /\ manifest_details' = read_manifest_details(manifest)
  /\ prog_pc' = "detailed"
  /\ UNCHANGED <<manifest, download_dir, progress_snapshot, download_progress>>
  /\ UNCHANGED <<vdfVars, stateVars, mutVars, libVars, setVars,
                 topoVars, collVars, rootVars,
                 lateVars>>

NextProgress == CollectManifestProgress \/ ReadManifestDetails

SpecProgress == InitProgress /\ [][NextProgress]_vars

\* the counters as the manifest gives them
SnapshotDownloaded == download_progress.progress_snapshot.bytes_downloaded
SnapshotTotal == download_progress.progress_snapshot.bytes_total

\* C12: a reported percentage is within 0..100; it is exactly 100 when
\* downloaded = total > 0 and when downloaded > total; a total of 0 gives
\* no percentage.
C12_ProgressClamp ==
  prog_pc = "scanned" =>
    LET percent == download_progress.progress_percent
    IN /\ percent.some =>
            /\ percent.value.den > 0
            /\ 0 <= percent.value.num
            /\ percent.value.num <= 100 * percent.value.den
       /\ ( /\ SnapshotDownloaded.some
            /\ SnapshotTotal.some
            /\ SnapshotTotal.value > 0
            /\ SnapshotDownloaded.value >= SnapshotTotal.value )
          => ( percent.some /\ percent.value.num = 100 * percent.value.den )
       /\ (SnapshotTotal.some /\ SnapshotTotal.value = 0) => ~percent.some

\* more downloaded than the total says, and the item reported
C12_Witness ==
  /\ prog_pc = "scanned"
  /\ SnapshotDownloaded.some
  /\ SnapshotTotal.some
  /\ SnapshotDownloaded.value > SnapshotTotal.value
  /\ SnapshotTotal.value > 0
  /\ download_progress.pushed
  /\ download_progress.progress_percent.some


\* the downloaded counter the comparison uses: 0 for a manifest without one
DownloadedOrZero ==
  IF SnapshotDownloaded.some THEN SnapshotDownloaded.value ELSE 0

\* the label the flags and the download directory give without progress
LabelWithoutProgress ==
  infer_steam_download_state(download_progress.state_flags, FALSE, download_dir)

\* C19 as stated: hasProgress is true exactly when both counters are in the
\* manifest and downloaded < total; a manifest without the downloaded (or
\* the total) counter never has progress and gets no label from it.
C19_HasProgressIffBothPresent ==
  prog_pc = "scanned" =>
    /\ download_progress.has_progress <=>
         ( /\ SnapshotDownloaded.some
           /\ SnapshotTotal.some
           /\ SnapshotDownloaded.value < SnapshotTotal.value )
    /\ (~SnapshotDownloaded.some \/ ~SnapshotTotal.some) =>
         /\ ~download_progress.has_progress
         /\ download_progress.state = LabelWithoutProgress

\* C19: hasProgress is true exactly when the total counter is in the
\* manifest and the downloaded counter, taken as 0 when the manifest has
\* none, is less than the total; a manifest without the total counter
\* never has progress and gets no label from it.
C19_HasProgressDefaultsDownloaded ==
  prog_pc = "scanned" =>
    /\ download_progress.has_progress <=>
         (SnapshotTotal.some /\ DownloadedOrZero < SnapshotTotal.value)
    /\ ~SnapshotTotal.some =>
         /\ ~download_progress.has_progress
         /\ download_progress.state = LabelWithoutProgress

\* a manifest with a total and no downloaded counter, labelled Queued for
\* its progress alone
C19_Witness ==
  /\ prog_pc = "scanned"
  /\ ~SnapshotDownloaded.some
  /\ SnapshotTotal.some
  /\ download_progress.has_progress
  /\ download_progress.state = "Queued"
  /\ LabelWithoutProgress = NoState

-----------------------------------------------------------------------------
(* Collections: parse_collection_name_candidate, vdf_collect_objects_by_key,
   parse_steam_collections_from_vdf, merge_collections_by_app_id *)

\* str::replace('\0', "")
RemoveNul(t) == SelectSeq(t, LAMBDA c : c # NUL)

\* chars().all(|character| character.is_ascii_digit())
AllAsciiDigits(t) == \A i \in 1..Len(t) : t[i] \in Digits

\* "0" | "1" | "true" | "false"
NOISE_TOKENS == { <<"0">>, <<"1">>, <<"t", "r", "u", "e">>, <<"f", "a", "l", "s", "e">> }

\* a plausible slip: the test for index-like placeholders left out
candidate_keeping_digits(raw_value) ==
  LET normalized == Trim(RemoveNul(raw_value))
  IN IF normalized = <<>> THEN None
     ELSE IF ToAsciiLowercase(normalized) \in NOISE_TOKENS THEN None
     ELSE Some(normalized)

\* a plausible slip: the noise tokens matched without lowering the text
candidate_matching_exact_case(raw_value) ==
  LET normalized == Trim(RemoveNul(raw_value))
  IN IF normalized = <<>> THEN None
     ELSE IF normalized \in NOISE_TOKENS THEN None
     ELSE IF AllAsciiDigits(normalized) THEN None
     ELSE Some(normalized)

parse_collection_name_candidate(raw_value) ==
  LET normalized == Trim(RemoveNul(raw_value))
      lowered == ToAsciiLowercase(normalized)
  IN IF normalized = <<>> THEN None
     ELSE IF lowered \in NOISE_TOKENS THEN None
     ELSE IF AllAsciiDigits(normalized) THEN None
     ELSE Some(normalized)

RECURSIVE vdf_collect_text_leaves(_)
\* the texts pushed to output, in order
vdf_collect_text_leaves(value) ==
  IF value.kind = "Text" THEN <<value.text>>
  ELSE Concat([i \in 1..Len(value.entries) |->
                 vdf_collect_text_leaves(value.entries[i].value)])

RECURSIVE vdf_collect_objects_by_key(_, _)
\* the objects pushed to output, in order
vdf_collect_objects_by_key(value, key) ==
  IF value.kind # "Object" THEN <<>>
  ELSE Concat([i \in 1..Len(value.entries) |->
         LET entry == value.entries[i]
         IN ( IF /\ eq_ignore_ascii_case(entry.key, key)
                 /\ entry.value.kind = "Object"
              THEN <<entry.value>> ELSE <<>> )
            \o vdf_collect_objects_by_key(entry.value, key)])

\* str::trim_matches(|c| c.is_whitespace() || c == '\0')
RECURSIVE TrimMatchesStart(_)
TrimMatchesStart(t) ==
  IF t # <<>> /\ (IsWhitespace(Head(t)) \/ Head(t) = NUL)
  THEN TrimMatchesStart(Tail(t)) ELSE t
RECURSIVE TrimMatchesEnd(_)
TrimMatchesEnd(t) ==
  IF t # <<>> /\ (IsWhitespace(t[Len(t)]) \/ t[Len(t)] = NUL)
  THEN TrimMatchesEnd(SubSeq(t, 1, Len(t) - 1)) ELSE t
TrimMatches(t) == TrimMatchesEnd(TrimMatchesStart(t))

\* the Some values of the candidates, as a set
AcceptedNames(candidates) ==
  { parse_collection_name_candidate(candidates[i]).value :
      i \in { j \in 1..Len(candidates) :
                parse_collection_name_candidate(candidates[j]).some } }

\* for (tag_key, tag_value) in tag_entries: collection_names
CollectionNames(tag_entries) ==
  UNION { AcceptedNames(<<tag_entries[i].key>>
                          \o vdf_collect_text_leaves(tag_entries[i].value)) :
            i \in 1..Len(tag_entries) }

KEY_tags == <<"t", "a", "g", "s">>

\* HashMap::entry(k).or_insert_with(HashSet::new).extend(names)
ExtendEntry(map, k, names) ==
  [ id \in DOMAIN map \cup {k} |->
      (IF id \in DOMAIN map THEN map[id] ELSE {})
        \cup (IF id = k THEN names ELSE {}) ]

RECURSIVE CollectAppEntries(_, _)
\* for (app_id, app_value) in app_entries
CollectAppEntries(app_entries, collections_by_app_id) ==
  IF app_entries = <<>> THEN collections_by_app_id
  ELSE LET app_id == Head(app_entries).key
           app_value == Head(app_entries).value
           normalized_app_id == TrimMatches(app_id)
           tags_value == vdf_find_object_value(app_value, KEY_tags)
           collection_names == CollectionNames(tags_value.entries)
       IN IF \/ normalized_app_id = <<>>
             \/ ~AllAsciiDigits(normalized_app_id)
             \/ tags_value.kind # "Object"
             \/ collection_names = {}
          THEN CollectAppEntries(Tail(app_entries), collections_by_app_id)
          ELSE CollectAppEntries(Tail(app_entries),
                 ExtendEntry(collections_by_app_id, normalized_app_id,
                             collection_names))

RECURSIVE CollectAppsObjects(_, _)
\* for apps_value in apps_objects
CollectAppsObjects(apps_objects, collections_by_app_id) ==
  IF apps_objects = <<>> THEN collections_by_app_id
  ELSE CollectAppsObjects(Tail(apps_objects),
         CollectAppEntries(Head(apps_objects).entries, collections_by_app_id))

\* HashMap::new()
EmptyMap == [id \in {} |-> {}]

parse_steam_collections_from_vdf(config_contents) ==
  LET root_value == parse_vdf_document(config_contents)
  IN IF ~root_value.ok THEN root_value
     ELSE [ ok |-> TRUE, err |-> <<>>,
            value |-> CollectAppsObjects(
                        vdf_collect_objects_by_key(root_value.value, KEY_apps),
                        EmptyMap) ]

\* a plausible slip: target.insert(app_id, collections)
merge_collections_overwriting(target_map, source_map) ==
  [ id \in DOMAIN target_map \cup DOMAIN source_map |->
      IF id \in DOMAIN source_map THEN source_map[id] ELSE target_map[id] ]

\* the target after the loop; the order the source is walked in does not
\* matter
merge_collections_by_app_id(target_map, source_map) ==
  [ id \in DOMAIN target_map \cup DOMAIN source_map |->
      (IF id \in DOMAIN target_map THEN target_map[id] ELSE {})
        \cup (IF id \in DOMAIN source_map THEN source_map[id] ELSE {}) ]

-----------------------------------------------------------------------------
(* SpecCollections: the configuration files of an account are read one
   after the other and their collections merged *)

\* the most configuration files found for an account; the code looks for
\* three
MaxFiles == 2

\* "tags" of an item: entries numbered by the platform
Tags(es) == Obj(KEY_tags, es)

ItemFavorites == Obj(<<"4", "2">>, << Tags(<< Txt(<<"0">>, <<"F", "a", "v", "o", "r", "i", "t", "e", "s">>) >>) >>)
\* a quoted key with a blank before the digits
ItemBlankKey == Obj(<<" ", "4", "2">>, << Tags(<< Txt(<<"0">>, <<"C", "o", "-", "o", "p">>) >>) >>)
\* the name as a tag key that holds an object, texts to trim, a NUL,
\* noise in other letter case, "Tags" in other letter case
ItemNested ==
  Obj(<<"4", "2">>, <<
    Obj(<<"T", "a", "g", "s">>, <<
      Obj(<<"P", "u", "z", "z", "l", "e">>, << Txt(<<"a", "d", "d", "e", "d">>, <<"1">>),
                          Txt(<<"x">>, <<" ", "I", "n", NUL, "d", "i", "e", " ">>),
                          Txt(<<"y">>, <<"T", "R", "U", "E">>) >>),
      Txt(<<"1">>, <<"R", "e", "t", "r", "o">>) >>) >>)
ItemNotNumeric == Obj(<<"x", "1">>, << Tags(<< Txt(<<"0">>, <<"H", "i", "d", "d", "e", "n">>) >>) >>)
\* "tags" holds a leaf; a second "tags" holds an object
ItemLeafTags ==
  Obj(<<"7">>, << Txt(KEY_tags, <<"L", "o", "o", "s", "e">>),
                 Tags(<< Txt(<<"0">>, <<"L", "a", "t", "e">>) >>) >>)
\* nothing but placeholders
ItemPlaceholders ==
  Obj(<<"7">>, << Tags(<< Txt(<<"0">>, <<"4", "2">>), Txt(<<"1">>, <<"f", "a", "l", "s", "e">>),
                         Txt(<<"2">>, <<" ">>),
                         Txt(<<"3">>, <<"F", "a", "l", "s", "e">>) >>) >>)
ItemLeaf == Txt(<<"9">>, <<"L", "e", "a", "f">>)
ItemRacing == Obj(<<"7">>, << Tags(<< Txt(<<"0">>, <<"R", "a", "c", "i", "n", "g">>) >>) >>)

\* sharedconfig.vdf as the platform writes it, around the entries of Steam
RoamingConfig(steam_entries) ==
  VdfObject(<<
    Obj(<<"U", "s", "e", "r", "R", "o", "a", "m", "i", "n", "g", "C", "o", "n", "f", "i", "g", "S", "t", "o", "r", "e">>, <<
      Obj(KEY_Software, << Obj(KEY_Valve, <<
        Obj(KEY_Steam, steam_entries) >>) >>) >>) >>)

ConfigDocuments ==
  { RoamingConfig(<< Obj(KEY_apps, << ItemFavorites >>) >>),
    RoamingConfig(<< Obj(KEY_apps, << ItemBlankKey, ItemNotNumeric >>) >>),
    RoamingConfig(<< Obj(KEY_apps, << ItemNested, ItemLeafTags >>) >>),
    RoamingConfig(<< Obj(KEY_apps, << ItemPlaceholders, ItemLeaf >>) >>),
    \* the same item twice in an object
    RoamingConfig(<< Obj(KEY_apps, << ItemRacing, ItemLeaf, ItemRacing,
                                      ItemPlaceholders >>) >>),
    \* an "apps" object in an "apps" object, another beside them, a leaf
    \* named "apps"
    RoamingConfig(<< Txt(KEY_apps, <<"l", "e", "a", "f">>),
                     Obj(KEY_apps, << ItemFavorites,
                                      Obj(<<"A", "p", "p", "s">>, << ItemRacing >>) >>),
                     Obj(<<"A", "P", "P", "S">>, << ItemNested >>) >>),
    RoamingConfig(<< Txt(<<"x">>, <<"y">>) >>) }

\* the texts of the files: documents as written, an empty file, a file
\* cut short
ConfigTexts ==
  { serialize_vdf_document(d) : d \in ConfigDocuments }
  \cup { <<>>, <<QUOTE>> \o KEY_apps \o <<QUOTE, NEWLINE, "{", NEWLINE>> }

RECURSIVE ConfigFileLists(_)
ConfigFileLists(n) ==
  IF n = 0 THEN {<<>>}
  ELSE LET shorter == ConfigFileLists(n - 1)
       IN shorter \cup {Append(l, f) : l \in shorter, f \in ConfigTexts}

InitCollections ==
  /\ config_files \in ConfigFileLists(MaxFiles)
  /\ collections = EmptyMap
  /\ coll_log = <<>>
  /\ IdleVdf
  /\ IdleState
  /\ IdleMut
  /\ IdleLib
  /\ IdleSettings
  /\ IdleTopo
  /\ IdleProgress
  /\ IdleRoot
  /\ IdleLate

\* one turn of the loop over config_paths for a file that is there: a file
\* that does not parse ends the import with its error
ReadConfigFile ==
  /\ config_files # <<>>
  /\ LET config_contents == Head(config_files)
         parsed_collections == parse_steam_collections_from_vdf(config_contents)
     IN /\ coll_log' = Append(coll_log,
                         [ contents |-> config_contents,
                           parsed |-> parsed_collections,
                           was |-> collections ])
        /\ IF parsed_collections.ok
           THEN /\ collections' = merge_collections_by_app_id(
                                    collections, parsed_collections.value)
                /\ config_files' = Tail(config_files)
           ELSE /\ collections' = collections
                /\ config_files' = <<>>
  /\ UNCHANGED <<vdfVars, stateVars, mutVars, libVars, setVars,
                 topoVars, progVars, rootVars,
                 lateVars>>

NextCollections == ReadConfigFile

SpecCollections == InitCollections /\ [][NextCollections]_vars


RECURSIVE NestedEntries(_)
\* the entries of a value at any depth
NestedEntries(value) ==
  IF value.kind # "Object" THEN {}
  ELSE UNION { {value.entries[i]} \cup NestedEntries(value.entries[i].value) :
                 i \in 1..Len(value.entries) }

\* the objects stored under a key named "apps" at any depth, and the
\* entries they hold
AppsObjectsOf(document) ==
  { e.value : e \in { n \in NestedEntries(document) :
                        /\ eq_ignore_ascii_case(n.key, KEY_apps)
                        /\ n.value.kind = "Object" } }
ItemsOf(document) ==
  UNION { {a.entries[i] : i \in 1..Len(a.entries)} : a \in AppsObjectsOf(document) }

\* an item has a "tags" object when its "tags" entry holds an object
HasTagsObject(item) ==
  vdf_find_object_value(item.value, KEY_tags).kind = "Object"

\* the candidate strings of an item: the keys of its tag entries and the
\* texts at any depth under them
TextsUnder(value) ==
  IF value.kind = "Text" THEN {value.text}
  ELSE { e.value.text : e \in { n \in NestedEntries(value) :
                                  n.value.kind = "Text" } }
CandidatesOf(item) ==
  LET tag_entries == vdf_find_object_value(item.value, KEY_tags).entries
  IN UNION { {tag_entries[i].key} \cup TextsUnder(tag_entries[i].value) :
               i \in 1..Len(tag_entries) }

\* a string as a stored name must be: no NUL, nothing to trim, not empty,
\* no noise token, not digits only
CleanName(n) ==
  /\ n # <<>>
  /\ \A i \in 1..Len(n) : n[i] # NUL
  /\ n = Trim(n)
  /\ n \notin NOISE_TOKENS
  /\ ~AllAsciiDigits(n)

\* the documents of the files read so far that parsed
LoggedDocument(i) == parse_vdf_document(coll_log[i].contents).value
ParsedFiles == { i \in 1..Len(coll_log) : coll_log[i].parsed.ok }

FAVORITES == <<"F", "a", "v", "o", "r", "i", "t", "e", "s">>

\* C13 as stated: every name reported for an identifier is a candidate of
\* an item with a "tags" object, with NUL removed and trimmed, and is not
\* empty, not a noise token and not digits only; "Favorites" is accepted
\* and "42" never is; the item's key is that identifier and is all digits.
C13_NamesFilteredDigitKeys ==
  \A f \in ParsedFiles :
    LET reported == coll_log[f].parsed.value
        items == ItemsOf(LoggedDocument(f))
    IN /\ \A id \in DOMAIN reported : \A n \in reported[id] :
            /\ CleanName(n)
            /\ \E item \in items :
                 /\ item.key = id
                 /\ AllAsciiDigits(item.key)
                 /\ HasTagsObject(item)
                 /\ \E c \in CandidatesOf(item) : n = Trim(RemoveNul(c))
       /\ \A item \in items :
            ( /\ AllAsciiDigits(item.key)
              /\ HasTagsObject(item)
              /\ FAVORITES \in CandidatesOf(item) )
            => ( item.key \in DOMAIN reported
                 /\ FAVORITES \in reported[item.key] )

\* C13: every name reported for an identifier is a candidate of an item
\* with a "tags" object, with NUL removed and trimmed, and is not empty,
\* not a noise token and not digits only; "Favorites" is accepted and "42"
\* never is; the item's key, with whitespace and NUL trimmed off its ends,
\* is that identifier and is all digits.
C13_NamesFilteredTrimmedKeys ==
  \A f \in ParsedFiles :
    LET reported == coll_log[f].parsed.value
        items == ItemsOf(LoggedDocument(f))
    IN /\ \A id \in DOMAIN reported : \A n \in reported[id] :
            /\ CleanName(n)
            /\ \E item \in items :
                 /\ TrimMatches(item.key) = id
                 /\ id # <<>>
                 /\ AllAsciiDigits(id)
                 /\ HasTagsObject(item)
                 /\ \E c \in CandidatesOf(item) : n = Trim(RemoveNul(c))
       /\ \A item \in items :
            ( /\ TrimMatches(item.key) # <<>>
              /\ AllAsciiDigits(TrimMatches(item.key))
              /\ HasTagsObject(item)
              /\ FAVORITES \in CandidatesOf(item) )
            => ( TrimMatches(item.key) \in DOMAIN reported
                 /\ FAVORITES \in reported[TrimMatches(item.key)] )

\* a file with an item under the key " 42" was read: its name is reported
\* for 42, the names of the item "x1" are not reported
C13_Witness ==
  \E f \in ParsedFiles :
    /\ \E item \in ItemsOf(LoggedDocument(f)) :
         item.key # TrimMatches(item.key) /\ HasTagsObject(item)
    /\ \E item \in ItemsOf(LoggedDocument(f)) :
         ~AllAsciiDigits(TrimMatches(item.key)) /\ HasTagsObject(item)
    /\ DOMAIN coll_log[f].parsed.value = { <<"4", "2">> }
    /\ coll_log[f].parsed.value[<<"4", "2">>] = { <<"C", "o", "-", "o", "p">> }


\* the accepted names found for the identifier id in a document: those of
\* every item of every "apps" object whose key is id
AcceptedNamesFor(document, id) ==
  UNION { { parse_collection_name_candidate(c).value :
              c \in { x \in CandidatesOf(item) :
                        parse_collection_name_candidate(x).some } } :
          item \in { x \in ItemsOf(document) :
                       TrimMatches(x.key) = id /\ HasTagsObject(x) } }

\* the identifiers a document has items for
IdentifiersOf(document) ==
  { id \in { TrimMatches(item.key) : item \in ItemsOf(document) } :
      id # <<>> /\ AllAsciiDigits(id) }

\* C14: the set reported for an item by a file is the union of the accepted
\* names found for it in all "apps" objects of the document, at any depth;
\* the merged set is the union over all files read; reading a further file
\* removes no name, and no item is reported with an empty set.
C14_CollectionsAreUnion ==
  /\ \A f \in ParsedFiles :
       LET reported == coll_log[f].parsed.value
           document == LoggedDocument(f)
           after == IF f < Len(coll_log) THEN coll_log[f + 1].was
                    ELSE collections
       IN /\ DOMAIN reported =
               { id \in IdentifiersOf(document) :
                   AcceptedNamesFor(document, id) # {} }
          /\ \A id \in DOMAIN reported :
               reported[id] = AcceptedNamesFor(document, id)
          /\ \A id \in DOMAIN coll_log[f].was :
               /\ id \in DOMAIN after
               /\ coll_log[f].was[id] \subseteq after[id]
  /\ DOMAIN collections =
       UNION { DOMAIN coll_log[f].parsed.value : f \in ParsedFiles }
  /\ \A id \in DOMAIN collections :
       /\ collections[id] # {}
       /\ collections[id] =
            UNION { AcceptedNamesFor(LoggedDocument(f), id) : f \in ParsedFiles }

\* two files read, the second with "apps" objects at three places: the
\* names of an item come from both files and from more than one object
C14_Witness ==
  /\ Len(coll_log) = 2
  /\ ParsedFiles = {1, 2}
  /\ Cardinality(AppsObjectsOf(LoggedDocument(2))) = 3
  /\ \E id \in DOMAIN collections :
       /\ id \in DOMAIN coll_log[2].was
       /\ id \in DOMAIN coll_log[2].parsed.value
       /\ collections[id] # coll_log[2].was[id]
       /\ collections[id] # coll_log[2].parsed.value[id]
       /\ \A a \in AppsObjectsOf(LoggedDocument(2)) :
            coll_log[2].parsed.value[id] #
              AcceptedNamesFor(VdfObject(<<Entry(KEY_apps, a)>>), id)


\* the file an apply wrote, as a document, and the object of the game in it
WrittenDocument(i) == parse_vdf_document(applied[i].result.written).value
WrittenAppSettings(i) ==
  Deref(WrittenDocument(i), AppsPath \o <<ToDecimal(applied[i].app_id)>>)

\* an object holds the text t under the key k, or holds no entry with the
\* key k in any letter case
HoldsText(object, k, t) == vdf_find_object_value(object, k) = VdfText(t)
HoldsNoEntry(object, k) ==
  \A j \in 1..Len(object.entries) :
    ~eq_ignore_ascii_case(object.entries[j].key, k)

\* the table of the modes: pairs of a mode and the leaf written for it, <<>>
\* standing for no entry
AutoUpdateTable ==
  { <<MODE_use_global_setting, <<>>>>, <<MODE_wait_until_launch, <<"1">>>>,
    <<MODE_let_steam_decide, <<"0">>>>, <<MODE_immediately_download, <<"2">>>> }
BackgroundDownloadsTable ==
  { <<MODE_pause_while_playing_global, <<>>>>, <<MODE_always_allow, <<"1">>>>,
    <<MODE_never_allow, <<"0">>>> }
SteamInputTable ==
  { <<MODE_use_default_settings, <<>>>>, <<MODE_disable_steam_input, <<"0">>>>,
    <<MODE_enable_steam_input, <<"1">>>> }

\* the object follows a table for the mode under the key k
FollowsTable(object, k, table, mode) ==
  /\ \E row \in table : row[1] = mode
  /\ \A row \in table :
       row[1] = mode =>
         IF row[2] = <<>> THEN HoldsNoEntry(object, k)
         ELSE HoldsText(object, k, row[2])

\* C15: after a settings apply the game's object holds AutoUpdateBehavior,
\* AllowDownloadsWhileRunning and SteamInput as the tables of the modes say
\* and LaunchOptions = the trimmed text; for a "use default" mode and for
\* empty launch options it holds no entry with the key in any letter case.
C15_ModesFollowTables ==
  \A i \in LastApply :
    applied[i].result.ok =>
      LET object == WrittenAppSettings(i)
          settings == applied[i].settings
      IN /\ object.kind = "Object"
         /\ FollowsTable(object, KEY_AutoUpdateBehavior, AutoUpdateTable,
                         settings.automatic_updates_mode)
         /\ FollowsTable(object, KEY_AllowDownloadsWhileRunning,
                         BackgroundDownloadsTable,
                         settings.background_downloads_mode)
         /\ FollowsTable(object, KEY_SteamInput, SteamInputTable,
                         settings.steam_input_override)
         /\ IF Trim(settings.launch_options) = <<>>
            THEN HoldsNoEntry(object, KEY_LaunchOptions)
            ELSE HoldsText(object, KEY_LaunchOptions,
                           Trim(settings.launch_options))

\* an apply that set SteamInput to "0" and then an apply of the defaults
\* for the same game, which held the settings in two spellings before
C15_Witness ==
  /\ Len(applied) = 2
  /\ applied[1].result.ok /\ applied[2].result.ok
  /\ applied[1].app_id = 7 /\ applied[2].app_id = 7
  /\ applied[1].settings.steam_input_override = MODE_disable_steam_input
  /\ HoldsText(WrittenAppSettings(1), KEY_SteamInput, <<"0">>)
  /\ applied[2].settings.steam_input_override = MODE_use_default_settings
  /\ applied[2].settings.automatic_updates_mode = MODE_use_global_setting
  /\ HoldsNoEntry(WrittenAppSettings(2), KEY_SteamInput)
  /\ ~HoldsNoEntry(Deref(parse_vdf_document(applied[1].read).value,
                         AppsPath \o <<ToDecimal(7)>>), KEY_LaunchOptions)

\* the compatibility-mapping section of a document: its entries, none when
\* there is no such section
MappingEntries(document) ==
  LET section == Deref(document, CompatToolMappingPath)
  IN IF section.kind = "Object" THEN section.entries ELSE <<>>

\* the entries of the section that belong to other identifiers
OtherMappings(document, app_id) ==
  SelectSeq(MappingEntries(document),
            LAMBDA e : ~eq_ignore_ascii_case(e.key, ToDecimal(app_id)))

\* C16: after an apply with the switch on, the compatibility-mapping
\* section holds for the identifier an object with name = the mapped tool
\* name, config = "" and priority = "250"; after an apply with the switch
\* off it holds no entry for the identifier; the entries of other
\* identifiers are the ones it held before.
C16_CompatMapping ==
  \A i \in LastApply :
    applied[i].result.ok =>
      LET settings == applied[i].settings
          id == ToDecimal(applied[i].app_id)
          section == VdfObject(MappingEntries(WrittenDocument(i)))
          entry == vdf_find_object_value(section, id)
      IN /\ IF settings.force_steam_play_compatibility_tool
            THEN /\ entry.kind = "Object"
                 /\ HoldsText(entry, KEY_name,
                      map_compatibility_tool_label_to_steam_name(
                        settings.steam_play_compatibility_tool))
                 /\ HoldsText(entry, KEY_config, <<>>)
                 /\ HoldsText(entry, KEY_priority, <<"2", "5", "0">>)
            ELSE HoldsNoEntry(section, id)
         /\ OtherMappings(WrittenDocument(i), applied[i].app_id)
              = OtherMappings(parse_vdf_document(applied[i].read).value,
                              applied[i].app_id)

\* a tool was forced for game 7 by its label and then the switch put off,
\* in a file that maps game 8 as well
C16_Witness ==
  /\ Len(applied) = 2
  /\ applied[1].result.ok /\ applied[2].result.ok
  /\ applied[1].app_id = 7 /\ applied[2].app_id = 7
  /\ applied[1].settings.force_steam_play_compatibility_tool
  /\ HoldsText(vdf_find_object_value(
                 VdfObject(MappingEntries(WrittenDocument(1))), ToDecimal(7)),
               KEY_name, <<"p", "r", "o", "t", "o", "n", "_", "9">>)
  /\ ~applied[2].settings.force_steam_play_compatibility_tool
  /\ HoldsNoEntry(VdfObject(MappingEntries(WrittenDocument(2))), ToDecimal(7))
  /\ OtherMappings(WrittenDocument(2), 7) # <<>>


-----------------------------------------------------------------------------
(* The Steam root of the host and the operations that start from it *)

ErrNoSteamInstallation == <<"Could not locate local Steam installation">>
ErrNotLinked == <<"Steam is not linked for this account">>
ErrSteamIdRequired == <<"Steam ID is required">>
ErrNoManifest(app_id) ==
  <<"Could not find Steam app manifest for app {app_id}. Install the game first.",
    app_id>>
ErrNoUserdata(steam_id, userdata_directory) ==
  <<"Could not find Steam userdata directory for account {steam_id} in {}",
    steam_id, userdata_directory>>

\* Path::is_dir on a host whose directories are dirs
is_dir(dirs, path) == path \in dirs

\* steam_root_candidates of the Linux build: four places under $HOME, none
\* when HOME is not set
steam_root_candidates(home_var) ==
  IF ~home_var.some THEN <<>>
  ELSE << Join(home_var.value, <<".", "s", "t", "e", "a", "m", "/", "r", "o", "o", "t">>),
          Join(home_var.value, <<".", "s", "t", "e", "a", "m", "/", "s", "t", "e", "a", "m">>),
          Join(home_var.value, <<".", "l", "o", "c", "a", "l", "/", "s", "h", "a", "r", "e", "/", "S", "t", "e", "a", "m">>),
          Join(home_var.value,
               <<".", "v", "a", "r", "/", "a", "p", "p", "/", "c", "o", "m", ".", "v", "a", "l", "v", "e", "s", "o", "f", "t", "w", "a", "r", "e", ".", "S", "t", "e", "a", "m", "/", ".", "l", "o", "c", "a", "l", "/", "s", "h", "a", "r", "e", "/", "S", "t", "e", "a", "m">>) >>

\* a plausible slip: the first candidate taken without looking at the host
first_candidate_unchecked(candidates, dirs) ==
  IF candidates = <<>> THEN NoPath ELSE Some(candidates[1])

\* .into_iter().find(|candidate| candidate.join("steamapps").is_dir())
find_candidate(candidates, dirs) ==
  LET valid == SelectSeq(candidates,
                         LAMBDA c : is_dir(dirs, Join(c, STEAMAPPS)))
  IN IF valid = <<>> THEN NoPath ELSE Some(valid[1])

\* the override, trimmed, when it is given and not blank; else the first
\* candidate that holds a steamapps directory
resolve_steam_root_path(steam_root_override, home_var, dirs) ==
  IF steam_root_override.some /\ Trim(steam_root_override.value) # <<>>
  THEN Some(Trim(steam_root_override.value))
  ELSE find_candidate(steam_root_candidates(home_var), dirs)

\* fs::read_to_string of libraryfolders.vdf on a host that holds directories
\* and no files
NoIndexFile == [kind |-> "NotFound", text |-> <<>>]

\* a plausible slip: no root reported as an error
detect_failing_without_root(steam_root) ==
  IF ~steam_root.some THEN Err(ErrNoSteamInstallation)
  ELSE Ok({})

\* detect_locally_installed_steam_app_ids once the root is resolved: the
\* identifiers of the manifests in the library directories, of which the
\* host holds none
detect_locally_installed_steam_app_ids(steam_root) ==
  IF ~steam_root.some THEN Ok({})
  ELSE LET steamapps_directories ==
             resolve_steamapps_directories(steam_root.value, NoIndexFile)
       IN IF ~steamapps_directories.ok THEN steamapps_directories
          ELSE Ok({})

\* list_steam_downloads once the root is resolved
list_steam_downloads(steam_root) ==
  IF ~steam_root.some THEN Ok(<<>>)
  ELSE LET steamapps_directories ==
             resolve_steamapps_directories(steam_root.value, NoIndexFile)
       IN IF ~steamapps_directories.ok THEN steamapps_directories
          ELSE Ok(<<>>)

\* Path::parent of a path that ends with a name: the path before the last
\* name, without the separators that end it
Parent(path) ==
  LET names == { k \in 1..Len(path) :
                   path[k] # "/" /\ (k = 1 \/ path[k - 1] = "/") }
      last == CHOOSE k \in names : \A m \in names : m <= k
      kept == { k \in 1..(last - 1) : path[k] # "/" }
  IN IF names = {} THEN path
     ELSE IF kept = {} THEN (IF last > 1 THEN <<"/">> ELSE <<>>)
     ELSE SubSeq(path, 1, CHOOSE k \in kept : \A m \in kept : m <= k)

\* the labels of the library paths, one for each not seen before in lower
\* case
LocationLabels(steamapps_directories) ==
  LET labels == [i \in 1..Len(steamapps_directories) |->
                   Parent(steamapps_directories[i])]
      first == SelectSeq(Positions(1, Len(labels)),
                 LAMBDA i : \A j \in 1..(i - 1) :
                              ~eq_ignore_ascii_case(labels[j], labels[i]))
  IN [k \in 1..Len(first) |-> labels[first[k]]]

\* list_game_install_locations once the root is resolved; a location is
\* written as its path label
list_game_install_locations(steam_root) ==
  IF ~steam_root.some THEN Ok(<<>>)
  ELSE LET steamapps_directories ==
             resolve_steamapps_directories(steam_root.value, NoIndexFile)
       IN IF ~steamapps_directories.ok THEN steamapps_directories
          ELSE LET locations == LocationLabels(steamapps_directories.value)
               IN IF locations = <<>> THEN Ok(<<steam_root.value>>)
                  ELSE Ok(locations)

\* resolve_steam_manifest_path_for_app_id once the root is resolved: no
\* library directory of the host holds the manifest
resolve_steam_manifest_path_for_app_id(steam_root, app_id) ==
  IF ~steam_root.some THEN Err(ErrNoSteamInstallation)
  ELSE LET steamapps_directories ==
             resolve_steamapps_directories(steam_root.value, NoIndexFile)
       IN IF ~steamapps_directories.ok THEN steamapps_directories
          ELSE Err(ErrNoManifest(app_id))

\* steam_userdata_candidate_directory_names, for an identifier that is not
\* above STEAM_ID64_ACCOUNT_ID_BASE
steam_userdata_candidate_directory_names(steam_id) ==
  IF Trim(steam_id) = <<>> THEN Err(ErrSteamIdRequired)
  ELSE Ok(<<Trim(steam_id)>>)

USERDATA == <<"u", "s", "e", "r", "d", "a", "t", "a">>

\* resolve_steam_userdata_directory
resolve_steam_userdata_directory(steam_root, steam_id, dirs) ==
  LET userdata_directory == Join(steam_root, USERDATA)
      names == steam_userdata_candidate_directory_names(steam_id)
  IN IF ~names.ok THEN names
     ELSE LET there == SelectSeq(names.value,
                LAMBDA n : is_dir(dirs, Join(userdata_directory, n)))
          IN IF there # <<>> THEN Ok(Join(userdata_directory, there[1]))
             ELSE Err(ErrNoUserdata(steam_id, userdata_directory))

ErrNoCollectionConfig(steam_id, userdata_directory) ==
  <<"Could not locate Steam collection config files for account {steam_id} in {}",
    steam_id, userdata_directory>>

\* import_steam_collections of a linked account once the root is resolved:
\* the host holds none of the three configuration files
import_steam_collections(steam_root, steam_id, dirs) ==
  IF ~steam_root.some THEN Err(ErrNoSteamInstallation)
  ELSE LET userdata_directory ==
             resolve_steam_userdata_directory(steam_root.value, steam_id, dirs)
       IN IF ~userdata_directory.ok THEN userdata_directory
          ELSE Err(ErrNoCollectionConfig(steam_id, userdata_directory.value))


-----------------------------------------------------------------------------
(* SpecRoot: operations that resolve the Steam root of a host, which holds
   some directories and no files *)

\* the most operations on one host
MaxRootCalls == 2

\* STEAM_ROOT_OVERRIDE as the application hands it on
RootOverrides ==
  { NoPath, Some(<<>>), Some(<<" ", TAB>>), Some(<<" ", "/", "o", " ">>), Some(<<"/", "o", "/">>),
    Some(<<"/", "m">>) }
\* $HOME
Homes == { NoPath, Some(<<"/", "h">>) }
\* the directories of a host
HostDirectories ==
  SUBSET { <<"/", "o", "/", "s", "t", "e", "a", "m", "a", "p", "p", "s">>, <<"/", "h", "/", ".", "s", "t", "e", "a", "m", "/", "r", "o", "o", "t", "/", "s", "t", "e", "a", "m", "a", "p", "p", "s">>,
           <<"/", "h", "/", ".", "l", "o", "c", "a", "l", "/", "s", "h", "a", "r", "e", "/", "S", "t", "e", "a", "m", "/", "s", "t", "e", "a", "m", "a", "p", "p", "s">>, <<"/", "o", "/", "u", "s", "e", "r", "d", "a", "t", "a", "/", "7", "6">> }

PROVIDER_steam == <<"s", "t", "e", "a", "m">>
PROVIDER_epic == <<"e", "p", "i", "c">>

InitRoot ==
  /\ root_override \in RootOverrides
  /\ home \in Homes
  /\ directories \in HostDirectories
  /\ root_call = <<>>
  /\ IdleVdf
  /\ IdleState
  /\ IdleMut
  /\ IdleLib
  /\ IdleSettings
  /\ IdleTopo
  /\ IdleProgress
  /\ IdleCollections
  /\ IdleLate

\* what is kept of an operation: whether it came to resolve the root, the
\* root it got and what it returned
RootCall(op, reached, steam_root, result) ==
  [op |-> op, reached |-> reached, steam_root |-> steam_root,
   result |-> result]

DetectLocallyInstalledSteamAppIds ==
  /\ Len(root_call) < MaxRootCalls
  /\ LET steam_root ==
           resolve_steam_root_path(root_override, home, directories)
     IN root_call' = Append(root_call,
          RootCall("detect_locally_installed_steam_app_ids", TRUE, steam_root,
                   detect_locally_installed_steam_app_ids(steam_root)))
  /\ UNCHANGED <<root_override, home, directories>>
  /\ UNCHANGED <<vdfVars, stateVars, mutVars, libVars, setVars, topoVars,
                 progVars, collVars,
                 lateVars>>

\* list_steam_downloads of a user who owns some Steam games or none
ListSteamDownloads(owned_is_empty) ==
  /\ Len(root_call) < MaxRootCalls
  /\ LET steam_root ==
           resolve_steam_root_path(root_override, home, directories)
     IN root_call' = Append(root_call,
          IF owned_is_empty
          THEN RootCall("list_steam_downloads", FALSE, NoPath, Ok(<<>>))
          ELSE RootCall("list_steam_downloads", TRUE, steam_root,
                        list_steam_downloads(steam_root)))
  /\ UNCHANGED <<root_override, home, directories>>
  /\ UNCHANGED <<vdfVars, stateVars, mutVars, libVars, setVars, topoVars,
                 progVars, collVars,
                 lateVars>>

\* list_game_install_locations of an owned game of a provider
ListGameInstallLocations(normalized_provider) ==
  /\ Len(root_call) < MaxRootCalls
  /\ LET steam_root ==
           resolve_steam_root_path(root_override, home, directories)
     IN root_call' = Append(root_call,
          IF normalized_provider # PROVIDER_steam
          THEN RootCall("list_game_install_locations", FALSE, NoPath,
                        Ok(<<>>))
          ELSE RootCall("list_game_install_locations", TRUE, steam_root,
                        list_game_install_locations(steam_root)))
  /\ UNCHANGED <<root_override, home, directories>>
  /\ UNCHANGED <<vdfVars, stateVars, mutVars, libVars, setVars, topoVars,
                 progVars, collVars,
                 lateVars>>

ResolveSteamManifestPathForAppId(app_id) ==
  /\ Len(root_call) < MaxRootCalls
  /\ LET steam_root ==
           resolve_steam_root_path(root_override, home, directories)
     IN root_call' = Append(root_call,
          RootCall("resolve_steam_manifest_path_for_app_id", TRUE, steam_root,
                   resolve_steam_manifest_path_for_app_id(steam_root, app_id)))
  /\ UNCHANGED <<root_override, home, directories>>
  /\ UNCHANGED <<vdfVars, stateVars, mutVars, libVars, setVars, topoVars,
                 progVars, collVars,
                 lateVars>>

\* import_steam_collections of a user whose account is linked or not
ImportSteamCollections(steam_id) ==
  /\ Len(root_call) < MaxRootCalls
  /\ LET steam_root ==
           resolve_steam_root_path(root_override, home, directories)
     IN root_call' = Append(root_call,
          IF ~steam_id.some
          THEN RootCall("import_steam_collections", FALSE, NoPath,
                        Err(ErrNotLinked))
          ELSE RootCall("import_steam_collections", TRUE, steam_root,
                        import_steam_collections(steam_root, steam_id.value,
                                                 directories)))
  /\ UNCHANGED <<root_override, home, directories>>
  /\ UNCHANGED <<vdfVars, stateVars, mutVars, libVars, setVars, topoVars,
                 progVars, collVars,
                 lateVars>>

NextRoot ==
  \/ DetectLocallyInstalledSteamAppIds
  \/ \E owned_is_empty \in BOOLEAN : ListSteamDownloads(owned_is_empty)
  \/ \E normalized_provider \in {PROVIDER_steam, PROVIDER_epic} :
       ListGameInstallLocations(normalized_provider)
  \/ \E app_id \in {7} : ResolveSteamManifestPathForAppId(app_id)
  \/ \E steam_id \in {NoPath, Some(<<"7", "6">>)} :
       ImportSteamCollections(steam_id)

SpecRoot == InitRoot /\ [][NextRoot]_vars

\* the calls that came to resolve the root and found none
NoRootCalls ==
  { i \in 1..Len(root_call) :
      root_call[i].reached /\ ~root_call[i].steam_root.some }

ListOperations ==
  { "detect_locally_installed_steam_app_ids", "list_steam_downloads",
    "list_game_install_locations" }

\* an empty result and not an error: no identifier, or a list of nothing
EmptyResult(made) ==
  /\ made.result.ok
  /\ made.result.value =
       (IF made.op = "detect_locally_installed_steam_app_ids" THEN {}
        ELSE <<>>)

\* C17 as stated: when no root is found, every operation that depends on
\* the resolved root (detection, downloads listing, install-location
\* listing, manifest lookup, collections import) yields an empty result
\* and not an error.
C17_NoRootIsEmptyResult ==
  \A i \in NoRootCalls : EmptyResult(root_call[i])

\* C17: when no root is found, installed-identifier detection, downloads
\* listing and install-location listing yield an empty result and not an
\* error; manifest lookup and collections import return the error that no
\* local Steam installation was located.
C17_NoRootListsAreEmpty ==
  \A i \in NoRootCalls :
    IF root_call[i].op \in ListOperations THEN EmptyResult(root_call[i])
    ELSE root_call[i].result = Err(ErrNoSteamInstallation)

\* on a host with HOME set, a blank override and no steamapps directory
\* under a candidate, identifiers were detected and collections imported
C17_Witness ==
  /\ home.some
  /\ root_override = Some(<<" ", TAB>>)
  /\ directories = { <<"/", "o", "/", "s", "t", "e", "a", "m", "a", "p", "p", "s">> }
  /\ NoRootCalls = {1, 2}
  /\ root_call[1].op = "detect_locally_installed_steam_app_ids"
  /\ root_call[1].result = Ok({})
  /\ root_call[2].op = "import_steam_collections"
  /\ ~root_call[2].result.ok

\* the calls that came to resolve the root and got one
RootedCalls ==
  { i \in 1..Len(root_call) :
      root_call[i].reached /\ root_call[i].steam_root.some }

OverrideGiven == root_override.some /\ Trim(root_override.value) # <<>>

HoldsSteamapps(path) == is_dir(directories, Join(path, STEAMAPPS))

\* C20 as stated: every root that resolve_steam_root_path returns, from
\* the override or from the candidate list, holds a steamapps directory.
C20_RootsValidated ==
  \A i \in RootedCalls : HoldsSteamapps(root_call[i].steam_root.value)

\* C20: every root that resolve_steam_root_path returns from the candidate
\* list is the first candidate that holds a steamapps directory; an
\* override that is not blank is returned as given, trimmed, whether or not
\* it holds one.
C20_CandidateRootsValidated ==
  \A i \in 1..Len(root_call) :
    root_call[i].reached =>
      LET steam_root == root_call[i].steam_root
          candidates == steam_root_candidates(home)
      IN IF OverrideGiven
         THEN steam_root = Some(Trim(root_override.value))
         ELSE IF steam_root.some
           THEN /\ HoldsSteamapps(steam_root.value)
                /\ \E k \in 1..Len(candidates) :
                     /\ candidates[k] = steam_root.value
                     /\ \A j \in 1..(k - 1) : ~HoldsSteamapps(candidates[j])
           ELSE \A k \in 1..Len(candidates) : ~HoldsSteamapps(candidates[k])

\* with no override, the first candidate of the host holds no steamapps
\* directory and the third one does: downloads were listed from the third
C20_Witness ==
  /\ root_override = NoPath
  /\ home = Some(<<"/", "h">>)
  /\ <<"/", "h", "/", ".", "s", "t", "e", "a", "m", "/", "r", "o", "o", "t", "/", "s", "t", "e", "a", "m", "a", "p", "p", "s">> \notin directories
  /\ <<"/", "h", "/", ".", "l", "o", "c", "a", "l", "/", "s", "h", "a", "r", "e", "/", "S", "t", "e", "a", "m", "/", "s", "t", "e", "a", "m", "a", "p", "p", "s">> \in directories
  /\ Len(root_call) >= 1
  /\ root_call[1].op = "list_steam_downloads"
  /\ root_call[1].reached
  /\ root_call[1].steam_root = Some(<<"/", "h", "/", ".", "l", "o", "c", "a", "l", "/", "s", "h", "a", "r", "e", "/", "S", "t", "e", "a", "m">>)
  /\ root_call[1].result = Ok(<<>>)


-----------------------------------------------------------------------------
(* Claims checked under SpecSave *)

\* the apply failed on the file itself: not found, not readable or not
\* written
IoFailure(result) ==
  /\ ~result.ok
  /\ result.err \in {ErrNoLocalconfig, ErrReadLocalconfig, ErrWriteLocalconfig}

\* the file as the call i left it
FileAfter(i) == IF i < Len(applied) THEN applied[i + 1].read ELSE localconfig

\* C18 as stated: an I/O failure of the settings apply is surfaced as an
\* error to the caller of the settings-save operation, with the file path
\* in the message: the save does not report success when the file was not
\* updated.
C18_SaveSurfacesIoFailure ==
  \A i \in 1..Len(applied) :
    IoFailure(applied[i].result) =>
      /\ ~applied[i].returned.ok
      /\ applied[i].returned.err = applied[i].result.err
      /\ applied[i].result.err[2] = LOCALCONFIG_PATH

\* C18: an I/O failure of the settings apply is returned by the apply to
\* the settings-save operation as an error with the file path in the
\* message and is not retried: the file is left as it was; the save
\* operation logs the error once and reports success all the same.
C18_ApplyFailureLoggedNotReturned ==
  \A i \in 1..Len(applied) :
    IoFailure(applied[i].result) =>
      /\ applied[i].result.err[2] = LOCALCONFIG_PATH
      /\ FileAfter(i) = applied[i].read
      /\ Len(applied[i].logged) = 1
      /\ applied[i].logged[1][3] = applied[i].result.err
      /\ applied[i].returned = Ok(<<>>)

\* two saves on a read-only localconfig.vdf that parses: both applies
\* failed at the write, the file is the one read first
C18_Witness ==
  /\ Len(applied) = 2
  /\ ~localconfig_writable
  /\ localconfig = serialize_vdf_document(SmallConfig)
  /\ applied[1].read = localconfig
  /\ applied[1].result.err = ErrWriteLocalconfig
  /\ applied[2].result.err = ErrWriteLocalconfig
  /\ applied[2].returned.ok


-----------------------------------------------------------------------------
(* The noise filter of the collection names, checked under SpecCollections *)

\* the candidates of the items with a "tags" object in a document
TagCandidates(document) ==
  UNION { CandidatesOf(item) :
            item \in { x \in ItemsOf(document) : HasTagsObject(x) } }

\* C30: the noise filter compares ignoring ASCII case: a candidate such as
\* "TRUE" or "False" is rejected like "true" and "false", so no reported
\* name is a noise token in any letter case.
C30_NoiseIgnoresCase ==
  /\ \A f \in ParsedFiles :
       \A id \in DOMAIN coll_log[f].parsed.value :
         \A n \in coll_log[f].parsed.value[id] :
           ToAsciiLowercase(n) \notin NOISE_TOKENS
  /\ \A id \in DOMAIN collections : \A n \in collections[id] :
       ToAsciiLowercase(n) \notin NOISE_TOKENS
  /\ \A f \in ParsedFiles : \A c \in TagCandidates(LoggedDocument(f)) :
       ToAsciiLowercase(Trim(RemoveNul(c))) \in NOISE_TOKENS
         => ~parse_collection_name_candidate(c).some

\* files with the candidates "TRUE" and "False" were read, and the item
\* that holds "TRUE" is reported with its other names
C30_Witness ==
  /\ \E f \in ParsedFiles :
       /\ <<"T", "R", "U", "E">> \in TagCandidates(LoggedDocument(f))
       /\ coll_log[f].parsed.value # EmptyMap
  /\ \E f \in ParsedFiles :
       <<"F", "a", "l", "s", "e">> \in TagCandidates(LoggedDocument(f))


-----------------------------------------------------------------------------
(* setLeaf on an object, checked under SpecMut *)

\* the object a call was made on, before and after the call
CalledOn == Deref(before, call.base)
CalledOnAfter == Deref(tree, call.base)

\* the indices of the entries of an object whose key matches k, and the
\* least of them
MatchesOf(object, k) ==
  { i \in 1..Len(object.entries) :
      eq_ignore_ascii_case(object.entries[i].key, k) }
FirstMatchOf(object, k) ==
  CHOOSE i \in MatchesOf(object, k) : \A j \in MatchesOf(object, k) : i <= j

\* C25: after vdf_set_text_entry(object, key, text) a case-insensitive find
\* of key returns the leaf text; when an entry matching key existed, the
\* number of entries is unchanged and only the value of the first matching
\* entry is replaced, its key spelling and position kept, even if it held
\* an object; when none existed, one entry (key, text) is added at the end.
C25_SetLeafReplacesOrAppends ==
  (call.name = "set" /\ CalledOn.kind = "Object") =>
    /\ CalledOnAfter.kind = "Object"
    /\ vdf_find_object_value(CalledOnAfter, call.key) = VdfText(call.text)
    /\ IF MatchesOf(CalledOn, call.key) # {}
       THEN /\ Len(CalledOnAfter.entries) = Len(CalledOn.entries)
            /\ \A i \in 1..Len(CalledOn.entries) :
                 /\ CalledOnAfter.entries[i].key = CalledOn.entries[i].key
                 /\ CalledOnAfter.entries[i].value =
                      IF i = FirstMatchOf(CalledOn, call.key)
                      THEN VdfText(call.text)
                      ELSE CalledOn.entries[i].value
       ELSE CalledOnAfter.entries =
              Append(CalledOn.entries, Entry(call.key, VdfText(call.text)))

\* a leaf was set under "a" in an object whose first match is spelled "A"
\* and held an object, with a second match after it
C25_Witness ==
  /\ call.name = "set"
  /\ CalledOn.kind = "Object"
  /\ Cardinality(MatchesOf(CalledOn, call.key)) = 2
  /\ LET first == FirstMatchOf(CalledOn, call.key)
     IN /\ CalledOn.entries[first].key # call.key
        /\ CalledOn.entries[first].value.kind = "Object"
        /\ CalledOnAfter.entries[first] =
             Entry(CalledOn.entries[first].key, VdfText(call.text))

\* a leaf was set under a key the object had no entry for: the object
\* grew by one entry
C25_WitnessAppended ==
  /\ call.name = "set"
  /\ CalledOn.kind = "Object"
  /\ CalledOn.entries # <<>>
  /\ MatchesOf(CalledOn, call.key) = {}
  /\ Len(CalledOnAfter.entries) = Len(CalledOn.entries) + 1


-----------------------------------------------------------------------------
(* Objects left open and a close-brace too many, checked under SpecVdf *)

\* the tokens of the input, and how many objects they leave open: the
\* open-braces that no close-brace answers
InputTokens == tokenize_vdf(contents)
LeftOpen ==
  CountType(InputTokens, "OpenBrace") - CountType(InputTokens, "CloseBrace")

\* n close-braces
Closers(n) == [ i \in 1..n |-> CloseBrace ]

\* the input without its last token
WithoutLast == SubSeq(InputTokens, 1, Len(InputTokens) - 1)

\* C28: an object that is never closed is accepted: when the tokens end
\* inside one or more open objects, parse_vdf_document reports no error for
\* that and returns the tree of the same input with the missing
\* close-braces appended; a single close-brace too many as the very last
\* top-level token is accepted and ignored.
C28_OpenObjectsAccepted ==
  pc # "input" =>
    /\ LeftOpen > 0 =>
         /\ parsed = ParseDocumentTokens(InputTokens \o Closers(LeftOpen))
         /\ MalformedScan(InputTokens, 1, 0, TRUE) = "none" => parsed.ok
    /\ ( /\ InputTokens # <<>>
         /\ InputTokens[Len(InputTokens)] = CloseBrace
         /\ ParseDocumentTokens(WithoutLast).ok
         /\ CountType(WithoutLast, "OpenBrace")
              = CountType(WithoutLast, "CloseBrace") )
       => parsed = ParseDocumentTokens(WithoutLast)

\* an input that ends inside two open objects was parsed into a tree
C28_Witness ==
  /\ pc = "parsed"
  /\ LeftOpen = 2
  /\ parsed.ok
  /\ parsed.value.entries # <<>>
  /\ parsed.value.entries[1].value.kind = "Object"
  /\ parsed.value.entries[1].value.entries # <<>>

\* an entry and then a close-brace at the top level were parsed
C28_WitnessStray ==
  /\ pc = "parsed"
  /\ LeftOpen = -1
  /\ parsed.ok
  /\ parsed.value.entries # <<>>


-----------------------------------------------------------------------------
(* Line comments, checked under SpecVdf *)

RECURSIVE CommentScan(_, _, _, _)
\* A reading of a text character by character that tells where its line
\* comments are. The reading is outside any token ("out"), inside a quoted
\* token or inside a bare token. The result holds the positions that belong
\* to comments, from the two slashes up to the end of the line, and the
\* positions of the pairs of slashes that are no comment. With anywhere a
\* pair of slashes inside a bare token begins a comment, too.
CommentScan(text, i, mode, anywhere) ==
  IF i > Len(text) THEN [comment |-> {}, kept |-> {}]
  ELSE
    LET c == text[i]
        pair == i < Len(text) /\ c = "/" /\ text[i + 1] = "/"
        eol == FirstOf(text, i, {NEWLINE})
        Go(next, m) == CommentScan(text, next, m, anywhere)
        Comment == [Go(eol, "out") EXCEPT !.comment = @ \cup i..(eol - 1)]
        Keep(m) == [Go(i + 1, m) EXCEPT !.kept = @ \cup {i}]
    IN CASE mode = "quoted" ->
              IF c = BACKSLASH THEN Go(i + 2, "quoted")
              ELSE IF c = QUOTE THEN Go(i + 1, "out")
              ELSE IF pair THEN Keep("quoted")
              ELSE Go(i + 1, "quoted")
         [] mode = "bare" ->
              IF IsWhitespace(c) \/ c \in {"{", "}"} THEN Go(i + 1, "out")
              ELSE IF pair THEN (IF anywhere THEN Comment ELSE Keep("bare"))
              ELSE Go(i + 1, "bare")
         [] OTHER ->
              IF c = QUOTE THEN Go(i + 1, "quoted")
              ELSE IF pair THEN Comment
              ELSE IF IsWhitespace(c) \/ c \in {NUL, "{", "}"} THEN Go(i + 1, "out")
              ELSE Go(i + 1, "bare")

\* the input after its leading byte-order marks, and the text without the
\* characters at some positions
InputText == StripBom(contents)
Without(text, positions) ==
  LET kept == SelectSeq(Positions(1, Len(text)), LAMBDA k : k \notin positions)
  IN [ j \in 1..Len(kept) |-> text[kept[j]] ]

\* a token holds two slashes in a row
HoldsSlashes(token) ==
  /\ token.type = "Text"
  /\ \E k \in 1..(Len(token.text) - 1) :
       token.text[k] = "/" /\ token.text[k + 1] = "/"

\* the tokens are those of the text without its comments
TokensSkip(scan) ==
  tokenize_vdf(contents) = tokenize_vdf(Without(InputText, scan.comment))

\* C24 as stated: every "//" outside a quoted token begins a line comment,
\* also when it directly follows the characters of a bare token: no
\* character from it up to the end of the line is in any token; "//"
\* inside a quoted token is ordinary text.
C24_CommentAnywhereOutsideQuotes ==
  LET scan == CommentScan(InputText, 1, "out", TRUE)
  IN /\ TokensSkip(scan)
     /\ scan.kept # {} =>
          \E k \in 1..Len(InputTokens) : HoldsSlashes(InputTokens[k])

\* C24: every "//" outside a quoted token and outside a bare token begins
\* a line comment: no character from it up to the end of the line is in
\* any token; a "//" that directly follows the characters of a bare token
\* is part of that token; "//" inside a quoted token is ordinary text.
C24_CommentWhereTokenStarts ==
  LET scan == CommentScan(InputText, 1, "out", FALSE)
  IN /\ TokensSkip(scan)
     /\ scan.kept # {} =>
          \E k \in 1..Len(InputTokens) : HoldsSlashes(InputTokens[k])

\* an input with a letter in a comment after a quoted token was parsed:
\* the letter is in no token
C24_Witness ==
  /\ pc = "parsed"
  /\ InputTokens = << TextToken(<<"a">>) >>
  /\ \E k \in CommentScan(InputText, 1, "out", FALSE).comment :
       InputText[k] = "n"

\* an input with two slashes after the letter of a bare token was parsed
C24_WitnessBare ==
  /\ pc = "parsed"
  /\ InputTokens = << TextToken(<<"n", "/", "/">>) >>


-----------------------------------------------------------------------------
(* The byte counters of a manifest, checked under SpecProgress *)

\* the lines of the manifest that hold the field name, in any letter case,
\* as the platform writes a field: a tab, the quoted name, two tabs, the
\* quoted text
IsFieldLine(line, name) ==
  /\ Len(line) >= Len(name) + 7
  /\ SubSeq(line, 1, 2) = <<TAB, QUOTE>>
  /\ ToAsciiLowercase(SubSeq(line, 3, Len(name) + 2)) = ToAsciiLowercase(name)
  /\ SubSeq(line, Len(name) + 3, Len(name) + 6) = <<QUOTE, TAB, TAB, QUOTE>>
  /\ line[Len(line)] = QUOTE
FieldLinesOf(name) ==
  SelectSeq(Lines(manifest), LAMBDA line : IsFieldLine(line, name))

\* the field is in the manifest; the text of its first line
FieldPresent(name) == FieldLinesOf(name) # <<>>
FieldText(name) ==
  LET line == FieldLinesOf(name)[1]
  IN SubSeq(line, Len(name) + 7, Len(line) - 1)

\* the text is an unsigned integer; the number it spells
IsUnsigned(t) == t # <<>> /\ \A i \in 1..Len(t) : t[i] \in Digits
FieldNumber(name) ==
  IF IsUnsigned(FieldText(name)) THEN Some(DecimalValue(FieldText(name)))
  ELSE None

\* the first field decides whenever it is present
FirstPresentWins(first, second) ==
  IF FieldPresent(first) THEN FieldNumber(first)
  ELSE IF FieldPresent(second) THEN FieldNumber(second)
  ELSE None

\* the first field decides when it is present and spells an unsigned
\* integer, else the second does
FirstNumberWins(first, second) ==
  IF FieldPresent(first) /\ FieldNumber(first).some THEN FieldNumber(first)
  ELSE IF FieldPresent(second) THEN FieldNumber(second)
  ELSE None

\* C23 as stated: the downloaded counter is the value of BytesDownloaded
\* whenever that field is present, BytesDownloadedOnCurrentRun is consulted
\* only when it is not present (likewise BytesToDownload before
\* TotalDownloaded); a present field whose text is no unsigned integer makes
\* the counter absent and never makes the read fail.
C23_FirstPresentWins ==
  prog_pc = "scanned" =>
    /\ progress_snapshot.bytes_downloaded =
         FirstPresentWins(FIELD_BytesDownloaded, FIELD_BytesDownloadedOnCurrentRun)
    /\ progress_snapshot.bytes_total =
         FirstPresentWins(FIELD_BytesToDownload, FIELD_TotalDownloaded)

\* C23: the downloaded counter is the value of BytesDownloaded whenever
\* that field is present and its text is an unsigned integer, and
\* BytesDownloadedOnCurrentRun is consulted when BytesDownloaded is not
\* present or its text is no unsigned integer (likewise BytesToDownload
\* before TotalDownloaded); the counter is absent when neither field gives
\* an unsigned integer, and a present field whose text is none never makes
\* the read fail.
C23_FirstNumberWins ==
  prog_pc = "scanned" =>
    /\ progress_snapshot.bytes_downloaded =
         FirstNumberWins(FIELD_BytesDownloaded, FIELD_BytesDownloadedOnCurrentRun)
    /\ progress_snapshot.bytes_total =
         FirstNumberWins(FIELD_BytesToDownload, FIELD_TotalDownloaded)

\* a manifest with BytesDownloaded "x" and BytesDownloadedOnCurrentRun "1"
\* was read: the downloaded counter is 1; its BytesToDownload decided the
\* total though TotalDownloaded is there
C23_Witness ==
  /\ prog_pc = "scanned"
  /\ FieldPresent(FIELD_BytesDownloaded)
  /\ ~IsUnsigned(FieldText(FIELD_BytesDownloaded))
  /\ FieldPresent(FIELD_BytesDownloadedOnCurrentRun)
  /\ progress_snapshot.bytes_downloaded = Some(1)
  /\ FieldPresent(FIELD_BytesToDownload)
  /\ FieldPresent(FIELD_TotalDownloaded)
  /\ FieldNumber(FIELD_BytesToDownload) # FieldNumber(FIELD_TotalDownloaded)
  /\ progress_snapshot.bytes_total = FieldNumber(FIELD_BytesToDownload)
  /\ progress_snapshot.bytes_total.some


-----------------------------------------------------------------------------
(* The letter case of manifest field names, checked under SpecProgress *)

\* the field names as the platform spells them
CanonicalNames ==
  { FIELD_installdir, FIELD_SizeOnDisk, FIELD_StateFlags,
    FIELD_BytesToDownload, FIELD_TotalDownloaded, FIELD_BytesDownloaded,
    FIELD_BytesDownloadedOnCurrentRun }

\* a line with the name of its field spelled as the platform spells it
CanonicalLine(line) ==
  IF \E name \in CanonicalNames : IsFieldLine(line, name)
  THEN LET name == CHOOSE n \in CanonicalNames : IsFieldLine(line, n)
       IN <<TAB, QUOTE>> \o name \o SubSeq(line, Len(name) + 3, Len(line))
  ELSE line

\* the manifest with every field name in the canonical letter case
CanonicalManifest ==
  LET lines == Lines(manifest)
  IN Concat([ i \in 1..Len(lines) |-> CanonicalLine(lines[i]) \o <<NEWLINE>> ])

\* the manifest spells a field name in another letter case
SpelledOtherwise == manifest # CanonicalManifest

\* C22: manifest fields are found by a case-insensitive scan of the field
\* name: for installdir, SizeOnDisk, StateFlags and the byte counters, a
\* manifest that spells the field name in a different letter case yields
\* the value that the manifest with the canonical spelling yields.
C22_FieldNamesIgnoreCase ==
  prog_pc = "detailed" =>
    /\ progress_snapshot =
         parse_steam_manifest_download_progress(CanonicalManifest)
    /\ manifest_details = read_manifest_details(CanonicalManifest)

\* the part of C22 that the code keeps: StateFlags and the byte counters
\* are found in any letter case
C22_CountersIgnoreCase ==
  prog_pc = "detailed" =>
    progress_snapshot =
      parse_steam_manifest_download_progress(CanonicalManifest)

\* a manifest that spells its fields in another letter case was read: its
\* flags and counters were found, its install directory was not
C22_Witness ==
  /\ prog_pc = "detailed"
  /\ SpelledOtherwise
  /\ progress_snapshot.state_flags.some
  /\ progress_snapshot.bytes_total.some
  /\ read_manifest_details(CanonicalManifest).install_directory.ok
  /\ ~manifest_details.install_directory.ok


-----------------------------------------------------------------------------
(* SpecConcurrent: set_game_properties_settings calls that run at the same
   time on one localconfig.vdf.  Each call reads the whole file, edits the
   tree it parsed and writes the whole file; nothing orders the reads and
   writes of two calls. *)

\* the calls that run at the same time
MaxConcurrent == 2
Operations == 1..MaxConcurrent

\* a plausible slip: a file that does not parse is taken as an empty
\* document
read_localconfig_or_empty(file) ==
  IF file = NoFile THEN [ok |-> FALSE, value |-> NoValue, err |-> ErrNoLocalconfig]
  ELSE IF file = UnreadableFile
    THEN [ok |-> FALSE, value |-> NoValue, err |-> ErrReadLocalconfig]
  ELSE LET localconfig_value == parse_vdf_document(file)
       IN IF localconfig_value.ok THEN localconfig_value
          ELSE Ok(VdfObject(<<>>))

\* resolve_steam_localconfig_path, fs::read_to_string and
\* parse_vdf_document, each ending the apply with ? when it fails
read_localconfig(file) ==
  IF file = NoFile THEN [ok |-> FALSE, value |-> NoValue, err |-> ErrNoLocalconfig]
  ELSE IF file = UnreadableFile
    THEN [ok |-> FALSE, value |-> NoValue, err |-> ErrReadLocalconfig]
  ELSE parse_vdf_document(file)

\* a plausible slip: the file is read again before the write and the edits
\* made on what it holds now
text_written_after_reread(op, file_now) ==
  LET now_value == parse_vdf_document(file_now)
  IN IF now_value.ok
     THEN serialize_vdf_document(
            ApplySettingsToValue(now_value.value, op.app_id, op.settings))
     ELSE serialize_vdf_document(op.value)

\* serialize_vdf_document(&localconfig_value): the text fs::write is given,
\* whatever the file holds now
text_written(op, file_now) == serialize_vdf_document(op.value)

\* a call before it reads the file
StartingOperation(app_id, settings) ==
  [ pc |-> "start", app_id |-> app_id, settings |-> settings,
    contents |-> <<>>, read_at |-> 0, value |-> NoValue,
    result |-> Ok(<<>>), writes |-> 0 ]

\* every mode at its default, no launch options, the switch off
DefaultSettings ==
  normalize_game_properties_settings_payload(
    default_game_properties_settings_payload)

\* the settings the calls are made with, as the handler normalizes them
ConcurrentSettings ==
  { DefaultSettings,
    normalize_game_properties_settings_payload(
      Payload(<<" ", "-", "f", "u", "l", "l", "s", "c", "r", "e", "e", "n", " ">>, TRUE, <<"P", "r", "o", "t", "o", "n", " ", "9", ".", "0", "-", "4">>, MODE_wait_until_launch,
              MODE_never_allow, MODE_enable_steam_input)) }

NonDefaultSettings ==
  CHOOSE settings \in ConcurrentSettings : settings # DefaultSettings

\* the calls made; calls are told apart by what they are made with only, so
\* they are numbered in the order of this list
StartingOperations ==
  << StartingOperation(7, DefaultSettings),
     StartingOperation(7, NonDefaultSettings),
     StartingOperation(42, DefaultSettings),
     StartingOperation(42, NonDefaultSettings) >>

\* a localconfig.vdf with leaves where the paths of the settings lead
LeafConfig ==
  VdfObject(<<
    Obj(KEY_UserLocalConfigStore, <<
      Obj(KEY_Software, <<
        Obj(KEY_Valve, <<
          Obj(KEY_Steam, <<
            Txt(KEY_apps, <<"l", "e", "a", "f">>),
            Txt(KEY_CompatToolMapping, <<"l", "e", "a", "f">>) >>) >>) >>) >>) >>)

\* the files the calls find, with whether they can be written: a small
\* one, the same read-only, one with leaves on the paths, one that cannot
\* be read, one whose last key has no value
ConcurrentConfigs ==
  { <<serialize_vdf_document(SmallConfig), TRUE>>,
    <<serialize_vdf_document(SmallConfig), FALSE>>,
    <<serialize_vdf_document(LeafConfig), TRUE>>,
    <<UnreadableFile, TRUE>>,
    <<<<QUOTE, "a", QUOTE, " ", "{", " ", QUOTE, "b", QUOTE>>, TRUE>> }

InitConcurrent ==
  /\ \E file \in ConcurrentConfigs :
       /\ localconfig = file[1]
       /\ localconfig_writable = file[2]
  /\ applied = <<>>
  /\ \E choice \in [Operations -> 1..Len(StartingOperations)] :
       /\ \A p \in Operations \ {1} : choice[p - 1] <= choice[p]
       /\ running = [p \in Operations |-> StartingOperations[choice[p]]]
  /\ write_log = <<>>
  /\ IdleVdf
  /\ IdleState
  /\ IdleMut
  /\ IdleLib
  /\ IdleTopo
  /\ IdleProgress
  /\ IdleCollections
  /\ IdleRoot
  /\ IdleDownloads

\* the call p reads the file and parses it; an error ends the apply
ReadLocalconfig(p) ==
  /\ running[p].pc = "start"
  /\ LET localconfig_value == read_localconfig(localconfig)
     IN running' = [running EXCEPT ![p] =
          IF localconfig_value.ok
          THEN [@ EXCEPT !.pc = "parsed", !.contents = localconfig,
                         !.read_at = Len(write_log),
                         !.value = localconfig_value.value]
          ELSE [@ EXCEPT !.pc = "done", !.read_at = Len(write_log),
                         !.result = Err(localconfig_value.err)]]
  /\ UNCHANGED <<localconfig, localconfig_writable, applied, write_log>>
  /\ UNCHANGED <<vdfVars, stateVars, mutVars, libVars,
                 topoVars, progVars, collVars, rootVars, downVars>>

\* the call p makes its edits on the tree it holds
EditLocalconfigValue(p) ==
  /\ running[p].pc = "parsed"
  /\ running' = [running EXCEPT ![p] =
       [@ EXCEPT !.pc = "edited",
                 !.value = ApplySettingsToValue(@, running[p].app_id,
                                                running[p].settings)]]
  /\ UNCHANGED <<localconfig, localconfig_writable, applied, write_log>>
  /\ UNCHANGED <<vdfVars, stateVars, mutVars, libVars,
                 topoVars, progVars, collVars, rootVars, downVars>>

\* the call p serializes its tree and writes the file
WriteLocalconfig(p) ==
  /\ running[p].pc = "edited"
  /\ IF localconfig_writable
     THEN /\ localconfig' = text_written(running[p], localconfig)
          /\ write_log' = Append(write_log,
                                 [by |-> p, text |-> localconfig'])
          /\ running' = [running EXCEPT ![p] =
               [@ EXCEPT !.pc = "done", !.writes = @ + 1]]
     ELSE /\ running' = [running EXCEPT ![p] =
               [@ EXCEPT !.pc = "done", !.result = Err(ErrWriteLocalconfig)]]
          /\ UNCHANGED <<localconfig, write_log>>
  /\ UNCHANGED <<localconfig_writable, applied>>
  /\ UNCHANGED <<vdfVars, stateVars, mutVars, libVars,
                 topoVars, progVars, collVars, rootVars, downVars>>

NextConcurrent ==
  \E p \in Operations :
    \/ ReadLocalconfig(p)
    \/ EditLocalconfigValue(p)
    \/ WriteLocalconfig(p)

SpecConcurrent == InitConcurrent /\ [][NextConcurrent]_vars


-----------------------------------------------------------------------------
(* Claims checked under SpecConcurrent *)

\* the object of a game and its compatibility mapping in a document
AppSection(document, app_id) ==
  Deref(document, AppsPath \o <<ToDecimal(app_id)>>)
AppMapping(document, app_id) ==
  vdf_find_object_value(VdfObject(MappingEntries(document)), ToDecimal(app_id))

\* a document holds every edit of the settings for a game: the launch
\* options, the update behaviour, the background downloads, the controller
\* override and the compatibility mapping
EditsHeld(document, app_id, settings) ==
  LET object == AppSection(document, app_id)
  IN /\ object.kind = "Object"
     /\ IF settings.launch_options = <<>>
        THEN HoldsNoEntry(object, KEY_LaunchOptions)
        ELSE HoldsText(object, KEY_LaunchOptions, settings.launch_options)
     /\ FollowsTable(object, KEY_AutoUpdateBehavior, AutoUpdateTable,
                     settings.automatic_updates_mode)
     /\ FollowsTable(object, KEY_AllowDownloadsWhileRunning,
                     BackgroundDownloadsTable,
                     settings.background_downloads_mode)
     /\ FollowsTable(object, KEY_SteamInput, SteamInputTable,
                     settings.steam_input_override)
     /\ Deref(document, CompatToolMappingPath).kind = "Object"
     /\ IF settings.force_steam_play_compatibility_tool
        THEN AppMapping(document, app_id).kind = "Object"
        ELSE AppMapping(document, app_id) = NoValue

\* the writes a call made
WritesBy(p) == SelectSeq(write_log, LAMBDA w : w.by = p)

\* the file a call read is one that can be read and parses
ReadableDocument(file) ==
  /\ file \notin {NoFile, UnreadableFile}
  /\ MalformedScan(tokenize_vdf(file), 1, 0, TRUE) = "none"

\* C21: a settings apply writes the file at most once, and only after every
\* edit (launch options, update behaviour, background downloads, controller
\* override, compatibility mapping) was made on the one tree in memory;
\* when reading the file fails or the parser reports a malformed document,
\* no write happens and the file is left as it was.
C21_SingleWriteAfterAllEdits ==
  /\ \A p \in Operations :
       /\ Len(WritesBy(p)) = running[p].writes
       /\ running[p].writes <= 1
       /\ running[p].writes = 1 =>
            /\ running[p].pc = "done"
            /\ ReadableDocument(running[p].contents)
            /\ WritesBy(p)[1].text = serialize_vdf_document(running[p].value)
            /\ EditsHeld(parse_vdf_document(WritesBy(p)[1].text).value,
                         running[p].app_id, running[p].settings)
       /\ (running[p].pc = "done" /\ ~running[p].result.ok
             /\ running[p].result.err # ErrWriteLocalconfig)
            => running[p].writes = 0
  /\ ~ReadableDocument(localconfig) =>
       /\ write_log = <<>>
       /\ \A p \in Operations : running[p].pc \in {"start", "done"}

\* two calls with settings that are not the defaults each wrote the file
\* once
C21_Witness ==
  /\ Len(write_log) = 2
  /\ \A p \in Operations :
       /\ running[p].pc = "done"
       /\ running[p].writes = 1
       /\ running[p].settings # DefaultSettings

\* the calls ended on a file whose last key has no value: nothing was
\* written
C21_WitnessMalformed ==
  /\ \A p \in Operations :
       /\ running[p].pc = "done"
       /\ running[p].result.err = ErrMissingValue(<<"b">>)
  /\ write_log = <<>>
  /\ localconfig \notin {NoFile, UnreadableFile}


\* the call that wrote the file last
LastWriter == write_log[Len(write_log)].by

\* the calls o and w, for two games, both read the file before any write,
\* both wrote it and reported no failure, w after o
ReadReadWriteWrite(o, w) ==
  /\ o # w
  /\ running[o].app_id # running[w].app_id
  /\ running[o].pc = "done" /\ running[w].pc = "done"
  /\ running[o].result.ok /\ running[w].result.ok
  /\ running[o].read_at = 0 /\ running[w].read_at = 0
  /\ running[o].writes = 1 /\ running[w].writes = 1
  /\ LastWriter = w

\* C26: no lock is taken on the file: when two settings applies for two
\* games interleave so that both read before either writes, the file holds
\* in the end the edits of the call that wrote last only; the edits of the
\* other call are lost, though it reported no failure.
C26_LastWriterWins ==
  \A o, w \in Operations :
    ReadReadWriteWrite(o, w) =>
      LET final == parse_vdf_document(localconfig).value
          read == parse_vdf_document(running[w].contents).value
      IN /\ running[o].contents = running[w].contents
         /\ localconfig = write_log[Len(write_log)].text
         /\ EditsHeld(final, running[w].app_id, running[w].settings)
         /\ AppSection(final, running[o].app_id)
              = AppSection(read, running[o].app_id)
         /\ AppMapping(final, running[o].app_id)
              = AppMapping(read, running[o].app_id)
         /\ running[o].result = Ok(<<>>)

\* two calls for the games 7 and 42 read the same file and wrote one after
\* the other: what the first wrote for its game is not in the file
C26_Witness ==
  \E o, w \in Operations :
    /\ ReadReadWriteWrite(o, w)
    /\ Len(write_log) = 2
    /\ running[o].settings # DefaultSettings
    /\ LET first == parse_vdf_document(write_log[1].text).value
           final == parse_vdf_document(localconfig).value
       IN /\ EditsHeld(first, running[o].app_id, running[o].settings)
          /\ ~EditsHeld(final, running[o].app_id, running[o].settings)
          /\ AppSection(first, running[o].app_id)
               # AppSection(final, running[o].app_id)

\* the tree a call read
TreeRead(p) == parse_vdf_document(running[p].contents).value

\* a call with all-default settings has made its edits on a document that
\* had no section for its game
DefaultsEdited(p) ==
  /\ running[p].pc \in {"edited", "done"}
  /\ running[p].value.kind = "Object"
  /\ running[p].settings = DefaultSettings
  /\ AppSection(TreeRead(p), running[p].app_id) = NoValue

\* C29: an apply of all-default settings (no launch options, every mode at
\* "use default", the compatibility switch off) to a document without a
\* section for the game still adds the path objects
\* UserLocalConfigStore/Software/Valve/Steam/apps/<id>, an empty object,
\* and UserLocalConfigStore/Software/Valve/Steam/CompatToolMapping, an
\* object, in place of any leaf on those paths: the tree written differs
\* from the tree read.
C29_DefaultsStillEdit ==
  \A p \in Operations :
    DefaultsEdited(p) =>
      /\ AppSection(running[p].value, running[p].app_id) = VdfObject(<<>>)
      /\ Deref(running[p].value, CompatToolMappingPath).kind = "Object"
      /\ \A k \in 1..Len(AppsPath) :
           Deref(running[p].value, SubSeq(AppsPath, 1, k)).kind = "Object"
      /\ running[p].value # TreeRead(p)
      /\ running[p].writes = 1 =>
           /\ parse_vdf_document(WritesBy(p)[1].text).value = running[p].value
           /\ WritesBy(p)[1].text # running[p].contents

\* all-default settings were applied and written to a file that held
\* leaves under "apps" and "CompatToolMapping"
C29_Witness ==
  \E p \in Operations :
    /\ DefaultsEdited(p)
    /\ running[p].writes = 1
    /\ Deref(TreeRead(p), AppsPath).kind = "Text"
    /\ Deref(TreeRead(p), CompatToolMappingPath).kind = "Text"
    /\ Len(write_log) = 1

\* all-default settings were applied for game 42 to a file with a section
\* for game 7 only
C29_WitnessNoLeaf ==
  \E p \in Operations :
    /\ DefaultsEdited(p)
    /\ running[p].writes = 1
    /\ AppSection(TreeRead(p), 7).kind = "Object"
    /\ running[p].read_at = 0

-----------------------------------------------------------------------------
(* SpecDownloads: the downloads report is collected over the steamapps
   directories of the library folders *)

\* the most steamapps directories of one report
MaxScanned == 2

MANIFEST_PREFIX == <<"a", "p", "p", "m", "a", "n", "i", "f", "e", "s", "t", "_">>
MANIFEST_SUFFIX == <<".", "a", "c", "f">>

\* str::strip_prefix
strip_prefix(t, prefix) ==
  IF Len(t) >= Len(prefix) /\ SubSeq(t, 1, Len(prefix)) = prefix
  THEN [some |-> TRUE, value |-> SubSeq(t, Len(prefix) + 1, Len(t))]
  ELSE [some |-> FALSE, value |-> <<>>]

\* str::strip_suffix
strip_suffix(t, suffix) ==
  IF Len(t) >= Len(suffix)
     /\ SubSeq(t, Len(t) - Len(suffix) + 1, Len(t)) = suffix
  THEN [some |-> TRUE, value |-> SubSeq(t, 1, Len(t) - Len(suffix))]
  ELSE [some |-> FALSE, value |-> <<>>]

parse_steam_manifest_app_id(file_name) ==
  LET without_prefix == strip_prefix(file_name, MANIFEST_PREFIX)
  IN IF ~without_prefix.some THEN None
     ELSE LET app_id == strip_suffix(without_prefix.value, MANIFEST_SUFFIX)
          IN IF ~app_id.some THEN None ELSE ParseU64(app_id.value)

\* the record pushed for an owned game
download_record(game, item) ==
  [ game_id |-> game.game_id,
    provider |-> "steam",
    external_id |-> game.external_id,
    name |-> game.name,
    state |-> item.state,
    bytes_downloaded |-> item.bytes_downloaded,
    bytes_total |-> item.bytes_total,
    progress_percent |-> item.progress_percent ]

\* a plausible slip: the external id is inserted into the set before the
\* state is looked at, so a manifest without a state takes the game's place
visit_marking_before_state(acc, game, item) ==
  IF game.external_id \in acc.seen THEN acc
  ELSE IF ~item.pushed
    THEN [acc EXCEPT !.seen = acc.seen \cup {game.external_id}]
  ELSE [acc EXCEPT !.seen = acc.seen \cup {game.external_id},
                   !.output = Append(acc.output, download_record(game, item))]

\* the loop body from the inferred state on: no state, continue; external
\* id seen before, continue; else insert it and push the record
visit_manifest(acc, game, item) ==
  IF ~item.pushed THEN acc
  ELSE IF game.external_id \in acc.seen THEN acc
  ELSE [acc EXCEPT !.seen = acc.seen \cup {game.external_id},
                   !.output = Append(acc.output, download_record(game, item))]

\* steamapps_directory/downloading/<app id> or .../temp/<app id> is a
\* directory
has_active_directory(steamapps_directory, app_id) ==
  \/ ToDecimal(app_id) \in steamapps_directory.downloading
  \/ ToDecimal(app_id) \in steamapps_directory.temp

ErrLibraryEntry == <<"Failed to read Steam library entry">>
ErrLibraryDirectory == <<"Failed to read Steam library directory">>
ErrLibraryFolders == <<"Failed to read Steam library folders">>

\* the one element of a set of one: a value bound this way is computed once
The(singleton) == CHOOSE element \in singleton : TRUE

\* one turn of the loop over the directory's entries: acc is [ok, err,
\* seen, output, scanned], the two collections of the caller and the error
\* that ends the call
visit_entry(steamapps_directory, owned, acc, entry) ==
  IF ~entry.entry_ok
    THEN [acc EXCEPT !.ok = FALSE, !.err = ErrLibraryEntry]
  ELSE The({
    IF \/ ~app_id.some
       \/ app_id.value \notin DOMAIN owned
       \/ ~entry.readable
      THEN acc
    ELSE The({ visit_manifest(acc, owned[app_id.value], item) :
               item \in {collect_manifest_progress(
                           parse_steam_manifest_download_progress(
                             entry.contents),
                           has_active_directory(steamapps_directory,
                                                app_id.value))} }) :
    app_id \in {parse_steam_manifest_app_id(entry.file_name)} })

RECURSIVE CollectEntries(_, _, _, _)
\* for directory_entry in directory_entries, from entry i on
CollectEntries(steamapps_directory, owned, acc, i) ==
  IF i > Len(steamapps_directory.entries)
    THEN [acc EXCEPT !.scanned = acc.scanned + 1]
  ELSE The({
    IF ~visited.ok THEN visited
    ELSE CollectEntries(steamapps_directory, owned, visited, i + 1) :
    visited \in {visit_entry(steamapps_directory, owned, acc,
                             steamapps_directory.entries[i])} })

collect_steam_download_progress_from_steamapps_dir(directory, owned, acc) ==
  IF directory.read_dir = "NotFound"
    THEN [acc EXCEPT !.scanned = acc.scanned + 1]
  ELSE IF directory.read_dir # "Ok"
    THEN [acc EXCEPT !.ok = FALSE, !.err = ErrLibraryDirectory]
  ELSE CollectEntries(directory, owned, acc, 1)

RECURSIVE CollectLibraries(_, _, _, _)
\* for steamapps_directory in steamapps_directories { collect(..)? }
CollectLibraries(steamapps_directories, owned, acc, i) ==
  IF i > Len(steamapps_directories) THEN acc
  ELSE The({
    IF ~collected.ok THEN collected
    ELSE CollectLibraries(steamapps_directories, owned, collected, i + 1) :
    collected \in {collect_steam_download_progress_from_steamapps_dir(
                     steamapps_directories[i], owned, acc)} })

\* the bytes of the letters of the games' names, in ascending order
NameBytes == <<"A", "B", "a", "b">>
ByteOrder(c) == CHOOSE n \in 1..Len(NameBytes) : NameBytes[n] = c

RECURSIVE StringLess(_, _)
\* left.cmp(right) == Ordering::Less on strings: byte by byte
StringLess(left, right) ==
  IF right = <<>> THEN FALSE
  ELSE IF left = <<>> THEN TRUE
  ELSE IF Head(left) # Head(right)
    THEN ByteOrder(Head(left)) < ByteOrder(Head(right))
  ELSE StringLess(Tail(left), Tail(right))

\* the comparator of the sort: the names in ASCII lower case
name_less(left, right) ==
  StringLess(ToAsciiLowercase(left.name), ToAsciiLowercase(right.name))

RECURSIVE sort_by_name(_)
\* Vec::sort_by is stable: a record goes behind the records not above it
sort_by_name(records) ==
  IF records = <<>> THEN <<>>
  ELSE LET sorted == sort_by_name(SubSeq(records, 1, Len(records) - 1))
           last == records[Len(records)]
           keep == {n \in 1..Len(sorted) : ~name_less(last, sorted[n])}
       IN SubSeq(sorted, 1, Cardinality(keep)) \o <<last>>
            \o SubSeq(sorted, Cardinality(keep) + 1, Len(sorted))

NoAcc == [ok |-> TRUE, err |-> <<>>, seen |-> {}, output |-> <<>>,
          scanned |-> 0]

Listed(is_ok, error, records, acc) ==
  [ok |-> is_ok, err |-> error, downloads |-> records,
   seen_external_ids |-> acc.seen, scanned |-> acc.scanned]

\* list_steam_downloads from the owned games on, over the steamapps
\* directories resolved
list_steam_downloads_over(owned, resolved, steamapps_directories) ==
  IF DOMAIN owned = {} THEN Listed(TRUE, <<>>, <<>>, NoAcc)
  ELSE IF resolved = "NoRoot" THEN Listed(TRUE, <<>>, <<>>, NoAcc)
  ELSE IF resolved # "Ok" THEN Listed(FALSE, ErrLibraryFolders, <<>>, NoAcc)
  ELSE The({
    IF ~collected.ok THEN Listed(FALSE, collected.err, <<>>, collected)
    ELSE Listed(TRUE, <<>>, sort_by_name(collected.output), collected) :
    collected \in {CollectLibraries(steamapps_directories, owned,
                                    NoAcc, 1)} })

\* the rows of the games table
Game7 == [game_id |-> "g7", external_id |-> <<"7">>, name |-> <<"a">>]
Game42 == [game_id |-> "g42", external_id |-> <<"4", "2">>, name |-> <<"B">>]
OwnedGames ==
  { [app_id \in {} |-> Game7],
    [app_id \in {7} |-> Game7],
    [app_id \in {7, 42} |-> IF app_id = 7 THEN Game7 ELSE Game42] }

ManifestOf(lines) ==
  <<QUOTE>> \o <<"A", "p", "p", "S", "t", "a", "t", "e">>
    \o <<QUOTE, NEWLINE, "{", NEWLINE>> \o lines \o <<"}", NEWLINE>>

\* fully installed: no state unless a download directory is there
ManifestInstalled == ManifestOf(ManifestLine(FIELD_StateFlags, <<"4">>))
\* update paused, one byte of two downloaded
ManifestPaused ==
  ManifestOf(ManifestLine(FIELD_StateFlags, <<"5", "1", "2">>)
             \o ManifestLine(FIELD_BytesToDownload, <<"2">>)
             \o ManifestLine(FIELD_BytesDownloaded, <<"1">>))
\* update started, no byte counters
ManifestStarted ==
  ManifestOf(ManifestLine(FIELD_StateFlags, <<"1", "0", "2", "4">>))

FileEntry(name, manifest_contents) ==
  [entry_ok |-> TRUE, file_name |-> name, readable |-> TRUE,
   contents |-> manifest_contents]
UnreadableEntry(name) ==
  [entry_ok |-> TRUE, file_name |-> name, readable |-> FALSE,
   contents |-> <<>>]
BrokenEntry ==
  [entry_ok |-> FALSE, file_name |-> <<>>, readable |-> FALSE,
   contents |-> <<>>]

\* a file of the directory that is no manifest
INDEX_FILE_NAME ==
  <<"l", "i", "b", "r", "a", "r", "y", "f",
   "o", "l", "d", "e", "r", "s", ".", "v", "d", "f">>

ManifestName(digits) == MANIFEST_PREFIX \o digits \o MANIFEST_SUFFIX

Directory(entries, downloading, temp) ==
  [read_dir |-> "Ok", entries |-> entries, downloading |-> downloading,
   temp |-> temp]
DirectoryFailing(kind) ==
  [read_dir |-> kind, entries |-> <<>>, downloading |-> {}, temp |-> {}]

\* the steamapps directories a library folder may hold
SteamappsDirectories ==
  { Directory(<<FileEntry(ManifestName(<<"7">>), ManifestInstalled)>>,
              {}, {}),
    Directory(<<FileEntry(ManifestName(<<"7">>), ManifestInstalled)>>,
              {<<"7">>}, {}),
    Directory(<<FileEntry(ManifestName(<<"7">>), ManifestPaused)>>, {}, {}),
    Directory(<<FileEntry(ManifestName(<<"7">>), ManifestStarted),
                FileEntry(ManifestName(<<"4", "2">>), ManifestPaused)>>,
              {}, {}),
    Directory(<<FileEntry(ManifestName(<<"4", "2">>), ManifestInstalled),
                FileEntry(ManifestName(<<"7">>), ManifestPaused)>>,
              {}, {<<"4", "2">>}),
    Directory(<<FileEntry(INDEX_FILE_NAME, ManifestPaused),
                UnreadableEntry(ManifestName(<<"7">>)),
                FileEntry(ManifestName(<<"4", "2">>), ManifestStarted)>>,
              {<<"4", "2">>}, {}),
    Directory(<<FileEntry(ManifestName(<<"7">>), ManifestPaused),
                BrokenEntry>>, {}, {}),
    Directory(<<FileEntry(ManifestName(<<"0", "7">>), ManifestInstalled),
                FileEntry(ManifestName(<<"7">>), ManifestStarted)>>,
              {}, {}),
    DirectoryFailing("NotFound"),
    DirectoryFailing("PermissionDenied") }

RECURSIVE DirectoryLists(_)
\* the lists of n steamapps directories
DirectoryLists(n) ==
  IF n = 0 THEN {<<>>}
  ELSE {Append(list, d) : list \in DirectoryLists(n - 1),
                          d \in SteamappsDirectories}

\* the root's own steamapps directory is always in the list
LibraryLists == UNION {DirectoryLists(n) : n \in 1..MaxScanned}

NotListed == Listed(FALSE, <<>>, <<>>, NoAcc)

InitDownloads ==
  /\ owned_games_by_app_id \in OwnedGames
  /\ \/ /\ dl_resolved \in {"NoRoot", "Failed"}
        /\ dl_libraries = <<>>
     \/ /\ dl_resolved = "Ok"
        /\ dl_libraries \in LibraryLists
  /\ dl_listed = NotListed
  /\ dl_pc = "ready"
  /\ IdleVdf
  /\ IdleState
  /\ IdleMut
  /\ IdleLib
  /\ IdleSettings
  /\ IdleTopo
  /\ IdleProgress
  /\ IdleCollections
  /\ IdleRoot
  /\ IdleRace

\* the whole call, the sort of the records included
ListSteamDownloadsOver ==
  /\ dl_pc = "ready"
  /\ dl_listed' = list_steam_downloads_over(
                    owned_games_by_app_id, dl_resolved, dl_libraries)
  /\ dl_pc' = IF dl_listed'.ok THEN "listed" ELSE "failed"
  /\ UNCHANGED <<owned_games_by_app_id, dl_resolved, dl_libraries>>
  /\ UNCHANGED <<vdfVars, stateVars, mutVars, libVars, setVars, topoVars,
                 progVars, collVars, rootVars, raceVars>>

NextDownloads == ListSteamDownloadsOver

SpecDownloads == InitDownloads /\ [][NextDownloads]_vars

-----------------------------------------------------------------------------
(* Claims checked under SpecDownloads *)

\* the places <<library, entry>> of the readable manifests of an app id, a
\* library being a position of the list of steamapps directories
ManifestPlaces(app_id) ==
  UNION {
    { <<library, n>> :
        n \in { m \in 1..Len(dl_libraries[library].entries) :
                 LET entry == dl_libraries[library].entries[m]
                 IN /\ entry.entry_ok
                    /\ entry.readable
                    /\ parse_steam_manifest_app_id(entry.file_name)
                         = Some(app_id) } } :
    library \in 1..Len(dl_libraries) }

\* what the manifest at a place shows of its game: the inferred state and
\* the byte counters
ShownAt(app_id, place) ==
  LET steamapps_directory == dl_libraries[place[1]]
  IN collect_manifest_progress(
       parse_steam_manifest_download_progress(
         steamapps_directory.entries[place[2]].contents),
       \/ ToDecimal(app_id) \in steamapps_directory.downloading
       \/ ToDecimal(app_id) \in steamapps_directory.temp)

\* the places where the inferred state is not absent
StatedPlaces(app_id) ==
  {place \in ManifestPlaces(app_id) : ShownAt(app_id, place).state # NoState}

\* discovery order: library by library, entry by entry
Earlier(a, b) == a[1] < b[1] \/ (a[1] = b[1] /\ a[2] < b[2])

FirstStatedPlace(app_id) ==
  CHOOSE place \in StatedPlaces(app_id) :
    \A other \in StatedPlaces(app_id) \ {place} : Earlier(place, other)

RecordsOf(external_id) ==
  { n \in 1..Len(dl_listed.downloads) :
      dl_listed.downloads[n].external_id = external_id }

\* C27. Across the scan of all library folders the downloads report holds
\* at most one record per owned item and no record of an item that is not
\* owned or whose inferred state is absent; an owned item with a manifest
\* of a state in some library has a record, and the record shows the
\* manifest of the first library, in discovery order, where its inferred
\* state is not absent: a manifest of absent state in an earlier library
\* does not block it.
C27_FirstStatedLibraryReports ==
  dl_pc = "listed" =>
    /\ \A n \in 1..Len(dl_listed.downloads) :
         LET record == dl_listed.downloads[n]
         IN /\ RecordsOf(record.external_id) = {n}
            /\ record.state # NoState
            /\ \E app_id \in DOMAIN owned_games_by_app_id :
                 owned_games_by_app_id[app_id].external_id
                   = record.external_id
    /\ \A app_id \in DOMAIN owned_games_by_app_id :
         LET game == owned_games_by_app_id[app_id]
         IN IF StatedPlaces(app_id) = {}
              THEN RecordsOf(game.external_id) = {}
            ELSE \E n \in RecordsOf(game.external_id) :
                   LET record == dl_listed.downloads[n]
                       shown == ShownAt(app_id, FirstStatedPlace(app_id))
                   IN /\ record.game_id = game.game_id
                      /\ record.name = game.name
                      /\ record.state = shown.state
                      /\ record.bytes_downloaded = shown.bytes_downloaded
                      /\ record.bytes_total = shown.bytes_total

\* a report of a game whose manifest in the first library has no state and
\* whose manifest in the second has one
C27_Witness ==
  /\ dl_pc = "listed"
  /\ Len(dl_libraries) = 2
  /\ <<1, 1>> \in ManifestPlaces(7) \ StatedPlaces(7)
  /\ StatedPlaces(7) # {}
  /\ FirstStatedPlace(7)[1] = 2
  /\ \E n \in RecordsOf(<<"7">>) : dl_listed.downloads[n].state = "Paused"

\* a report of a game whose manifests in two libraries both have a state,
\* a different one in each, next to a game that is not owned
C27_WitnessTwice ==
  /\ dl_pc = "listed"
  /\ DOMAIN owned_games_by_app_id = {7}
  /\ ManifestPlaces(42) # {}
  /\ \E a \in StatedPlaces(7), b \in StatedPlaces(7) :
       /\ a[1] < b[1]
       /\ ShownAt(7, a).state # ShownAt(7, b).state
  /\ Len(dl_listed.downloads) = 1

=============================================================================
